---- MODULE Spec2Model ----
(***************************************************************************)
(* Filter-pipeline subsystem of the multimedia streaming service:          *)
(*   - AudioFilterManager (backend/app/filters/audio/filter_manager.py)    *)
(*   - audio utils        (backend/app/filters/audio/utils.py)             *)
(*   - the audio filters  (backend/app/filters/audio/*.py)                 *)
(*   - VideoFilterManager (backend/app/filters/video/filter_manager.py)    *)
(*   - the endpoints      (backend/app/api/endpoints/upload.py, filters.py,*)
(*                          streaming.py)                                  *)
(*                                                                         *)
(* The specifications share the variables: Spec calls each orchestrator    *)
(* directly, SpecRemux calls the audio orchestrator on more kinds of       *)
(* sources and output paths, SpecFilters calls the audio filter functions  *)
(* on their own, SpecSave calls save_audio_to_wav on its own, SpecApi runs *)
(* the handlers of upload, configure, apply and delete, which call the     *)
(* orchestrators, SpecStream runs them with the handler of stream, and     *)
(* SpecLive calls the orchestrators under the condition that every run of  *)
(* the external tool exits.                                                *)
(*                                                                         *)
(* The file system is a function from paths to file contents.  A path is   *)
(* a record [dir, name]; name is the sequence of the pieces of the base    *)
(* name, the last piece being the extension (with its dot).  Every run of  *)
(* the external tool (ffmpeg, ffprobe) is one step whose outcome is "ok",  *)
(* "nonzero" (subprocess.CalledProcessError) or "notfound"                 *)
(* (FileNotFoundError, the tool is not installed).                         *)
(*                                                                         *)
(* Samples are fixed-point numbers: the integer v stands for the float     *)
(* v / Unit.  Library code (scipy.signal butter/filtfilt/wiener) is not    *)
(* part of the repository; it is replaced by small deterministic linear    *)
(* kernels that keep the shape (LibBandPass, LibLowPass, LibWiener); the   *)
(* buffers are taken to be long enough for filtfilt's padding.             *)
(***************************************************************************)
EXTENDS Integers, Sequences, FiniteSets, TLC

VARIABLES
    fs,              \* the file system: path -> content, for the files that exist
    tmpdirs,         \* the temporary directories that exist
    ffmpeg,          \* "present" | "missing": is the ffmpeg binary installed
    ffprobe,         \* "present" | "missing": is the ffprobe binary installed
    source0,         \* content of the source file when the orchestrator was called
    log,             \* history: the external tool invocations, in order
    \* ---- VideoFilterManager.process_video
    vpc,             \* position in process_video
    v_input_path,
    v_output_path,
    v_filters_config,
    v_config0,       \* history: v_filters_config as it was at the call
    v_i,             \* loop index i (0-based, as in the code)
    v_temp_output,   \* temp_output: the input of the next stage
    v_current_output,
    v_variant,       \* the ffmpeg command the current stage runs next
    v_failed,        \* history: the except handler of process_video ran
    v_result,        \* the value process_video returned (NoPath before it returns)
    \* ---- AudioFilterManager.process_video / process_audio
    apc,             \* position in process_video
    a_input_path,
    a_output_path,
    a_filters_config, \* the list object the caller passed (aliased by the caller)
    a_config0,       \* history: a_filters_config as it was at the call
    audio_data,      \* int16 buffer read from the extracted WAV
    processed,       \* process_audio's float buffer
    a_i,             \* index of the next FilterSpec of process_audio (1-based)
    a_trace,         \* history: processed after each FilterSpec handled so far
    has_video_stream, \* merge_audio_with_video's probe result
    a_failed,        \* history: the step whose failure made process_video copy the source
    a_saved,         \* history: the buffer save_audio_to_wav wrote ("processed" | "original")
    a_result,        \* the value process_video returned (NoPath before it returns)
    \* ---- a filter function called on its own
    f_in0,           \* the buffer the first call is given
    f_hist,          \* history: the calls made so far, each with its input and its result
    \* ---- the endpoints (api/endpoints/upload.py, api/endpoints/filters.py)
    videos,          \* upload.videos: video_id -> the record of the upload
    hpc,             \* position of the apply_filters handler that is running
    h_id,            \* video_id of the apply_filters handler that is running
    current_input,   \* apply_filters' current_input
    h_response,      \* the last response sent
    inflight,        \* history: the handlers that have begun and not yet responded
    h_overlap,       \* history: a handler began while another one was running
    s_path,          \* video_path of the StreamingResponse whose body is not yet read
    h_served,        \* history: what the last response body delivered
    h_request,       \* history: the upload request answered last
    h_applied,       \* history: video_id -> the config the processed file was made with
    h_videos0        \* history: the registry when the request answered last arrived

vvars == <<vpc, v_input_path, v_output_path, v_filters_config, v_config0, v_i, v_temp_output,
           v_current_output, v_variant, v_failed, v_result>>
avars == <<apc, a_input_path, a_output_path, a_filters_config, a_config0, audio_data,
           processed, a_i, a_trace, has_video_stream, a_failed, a_saved, a_result>>
fvars == <<f_in0, f_hist>>
hvars == <<videos, hpc, h_id, current_input, h_response, inflight, h_overlap, s_path,
           h_served, h_request, h_applied, h_videos0>>
vars == <<fs, tmpdirs, ffmpeg, ffprobe, source0, log, vvars, avars, fvars, hvars>>

-----------------------------------------------------------------------------
(* Bounds of the model *)

\* longest video FilterChain tried
MaxVideoChain == 3
\* longest audio FilterChain tried
MaxAudioChain == 2
\* most calls of filter functions made in a row on one buffer
MaxStages == 2

-----------------------------------------------------------------------------
(* Paths and file contents *)

NoPath == [dir |-> "", name |-> <<>>]
NoBuffer == <<>>

\* os.path.basename
Basename(p) == p.name
\* os.path.splitext(p)[1].lower()
Ext(p) == p.name[Len(p.name)]
\* os.path.splitext(p)[0] + ext
WithExt(p, ext) == [p EXCEPT !.name = SubSeq(p.name, 1, Len(p.name) - 1) \o <<ext>>]
\* os.path.join(d, <pieces>)
Join(d, pieces) == [dir |-> d, name |-> pieces]

Exists(f, p) == p \in DOMAIN f
\* writing (creating or overwriting) the file at p
Write(f, p, c) == [q \in (DOMAIN f) \cup {p} |-> IF q = p THEN c ELSE f[q]]
\* removing a directory with everything in it
RemoveTree(f, d) == [q \in {p \in DOMAIN f : p.dir # d} |-> f[q]]

\* what a failed run of ffmpeg may leave at its output path
Partial ==
    [kind |-> "partial", container |-> "none", hasVideo |-> FALSE, vf |-> <<>>,
     pcm |-> NoBuffer, acodec |-> "none"]

\* a copy through the transcoder: the streams are kept, the bytes are not
Copy2_remuxes(f, src, dst) ==
    Write(f, dst, [f[src] EXCEPT !.container = "remuxed"])
\* shutil.copy2(src, dst): a byte-identical copy
Copy2(f, src, dst) == Write(f, dst, f[src])

VideoTmp == "tmp_video"
AudioTmp == "tmp_audio"

-----------------------------------------------------------------------------
(* Sample buffers and the audio filter set *)

\* 16-bit full scale, the divisor of the filters' normalisation
Int16Max == 32767
\* the fixed-point integer that stands for the float 1.0
Unit == 2 * Int16Max
\* sample rate of every extracted track ("-ar 44100")
SampleRate == 44100

Abs(x) == IF x < 0 THEN -x ELSE x
Sign(x) == IF x < 0 THEN -1 ELSE IF x > 0 THEN 1 ELSE 0
\* division rounding toward zero, the fixed-point image of a float quotient
DivT(a, b) == IF a >= 0 THEN a \div b ELSE -((-a) \div b)
Max2(a, b) == IF a >= b THEN a ELSE b
Min2(a, b) == IF a <= b THEN a ELSE b

RECURSIVE SeqMaxAbs(_)
SeqMaxAbs(s) ==
    IF s = <<>> THEN 0 ELSE Max2(Abs(Head(s)), SeqMaxAbs(Tail(s)))
\* np.max(np.abs(buffer)) over every channel
MaxAbs(buf) ==
    LET m == [c \in 1..Len(buf) |-> SeqMaxAbs(buf[c])]
    IN  SeqMaxAbs(m)

Channels(buf) == Len(buf)
Samples(buf) == IF buf = <<>> THEN 0 ELSE Len(buf[1])

\* ndarray.astype(np.float32) of an integer buffer: the value s becomes the float s
AsFloat(buf) ==
    [c \in 1..Len(buf) |-> [n \in 1..Len(buf[c]) |-> buf[c][n] * Unit]]

\* "if np.max(np.abs(x)) > 1.0: x = x / 32767.0", the filters' own normalisation
NormalizeIfLoud(buf) ==
    IF MaxAbs(buf) > Unit
    THEN [c \in 1..Len(buf) |-> [n \in 1..Len(buf[c]) |-> DivT(buf[c][n], Int16Max)]]
    ELSE buf

\* "if max_val > 1.0: x = x / max_val"
RescaleIfClipping(buf) ==
    LET m == MaxAbs(buf)
        F(v) == DivT(DivT(v * 1024, m) * Unit, 1024)
    IN  IF m > Unit
        THEN [c \in 1..Len(buf) |-> [n \in 1..Len(buf[c]) |-> F(buf[c][n])]]
        ELSE buf

\* a FilterSpec's params: a set of <<key, <<numerator, denominator>>>>
HasKey(params, k) == \E kv \in params : kv[1] = k
Keys(params) == {kv[1] : kv \in params}
\* dict.get(k, default) / a keyword argument's default value
Get(params, k, default) ==
    IF HasKey(params, k) THEN (CHOOSE kv \in params : kv[1] = k)[2] ELSE default
\* params[k] = v
Put(params, k, v) == {kv \in params : kv[1] # k} \cup {<<k, v>>}
\* x * (num/den)
Times(x, q) == DivT(x * q[1], q[2])

\* scipy.signal.filtfilt with a Butterworth band-pass: a zero-phase kernel without DC gain
LibBandPass(x) ==
    [n \in 1..Len(x) |->
        LET l == IF n = 1 THEN x[n] ELSE x[n - 1]
            r == IF n = Len(x) THEN x[n] ELSE x[n + 1]
        IN  DivT(2 * x[n] - l - r, 4)]
\* scipy.signal.filtfilt with a Butterworth low-pass: a zero-phase smoothing kernel
LibLowPass(x) ==
    [n \in 1..Len(x) |->
        LET l == IF n = 1 THEN x[n] ELSE x[n - 1]
            r == IF n = Len(x) THEN x[n] ELSE x[n + 1]
        IN  DivT(l + 2 * x[n] + r, 4)]
\* scipy.signal.wiener(x, size): a local mean over the window, zero padded
LibWiener(x, size) ==
    [n \in 1..Len(x) |->
        LET l == IF n = 1 THEN 0 ELSE x[n - 1]
            r == IF n = Len(x) THEN 0 ELSE x[n + 1]
        IN  IF size < 3 THEN x[n] ELSE DivT(l + x[n] + r, 3)]

\* a compressor without the knee: the whole magnitude is divided by the ratio
apply_gain_compression_no_knee(data, params) ==
    LET threshold == Get(params, "threshold", <<1, 2>>)
        ratio == Get(params, "ratio", <<4, 1>>)
        t == Times(Unit, threshold)
        F(v) == IF Abs(v) > t THEN Sign(v) * DivT(Abs(v) * ratio[2], ratio[1]) ELSE v
    IN  [c \in 1..Len(data) |-> [n \in 1..Len(data[c]) |-> F(data[c][n])]]
\* a compressor without the mask: every sample is moved toward the threshold
apply_gain_compression_no_mask(data, params) ==
    LET threshold == Get(params, "threshold", <<1, 2>>)
        ratio == Get(params, "ratio", <<4, 1>>)
        t == Times(Unit, threshold)
        F(v) == Sign(v) * (t + DivT((Abs(v) - t) * ratio[2], ratio[1]))
    IN  [c \in 1..Len(data) |-> [n \in 1..Len(data[c]) |-> F(data[c][n])]]
\* gain_compression.apply_gain_compression
apply_gain_compression(data, params) ==
    LET threshold == Get(params, "threshold", <<1, 2>>)
        ratio == Get(params, "ratio", <<4, 1>>)
        t == Times(Unit, threshold)
        F(v) == IF Abs(v) > t
                THEN Sign(v) * (t + DivT((Abs(v) - t) * ratio[2], ratio[1]))
                ELSE v
    IN  [c \in 1..Len(data) |-> [n \in 1..Len(data[c]) |-> F(data[c][n])]]

\* voice_enhancement.apply_voice_enhancement
apply_voice_enhancement(data, params) ==
    LET alpha == Get(params, "alpha", <<95, 100>>)
        audio_float == NormalizeIfLoud(data)
        pre_emphasized ==
            [c \in 1..Len(audio_float) |->
                [n \in 1..Len(audio_float[c]) |->
                    IF n = 1 THEN audio_float[c][n]
                    ELSE audio_float[c][n] - Times(audio_float[c][n - 1], alpha)]]
    IN  [c \in 1..Len(pre_emphasized) |-> LibBandPass(pre_emphasized[c])]

\* int(delay_ms * sample_rate / 1000)
DelaySamples(params) ==
    LET delay_ms == Get(params, "delay_ms", <<500, 1>>)
    IN  (delay_ms[1] * Get(params, "sample_rate", <<SampleRate, 1>>)[1]) \div (delay_ms[2] * 1000)

\* denoise_delay.apply_denoise_delay with the echo at the offset delay_samples
delayed_at(data, params, delay_samples) ==
    LET decay == Get(params, "decay", <<1, 2>>)
        wiener_size == Get(params, "wiener_size", <<1001, 1>>)
        audio_float == NormalizeIfLoud(data)
        denoised ==
            [c \in 1..Len(audio_float) |-> LibWiener(audio_float[c], wiener_size[1])]
        delayed ==
            [c \in 1..Len(denoised) |->
                [n \in 1..Len(denoised[c]) |->
                    IF n > delay_samples
                    THEN denoised[c][n] + Times(denoised[c][n - delay_samples], decay)
                    ELSE denoised[c][n]]]
    IN  RescaleIfClipping(delayed)
\* denoise_delay.apply_denoise_delay
apply_denoise_delay(data, params) == delayed_at(data, params, DelaySamples(params))

\* a phone effect that returns the downmix as one channel
apply_phone_effect_one_channel(data, params) ==
    LET audio_float == NormalizeIfLoud(data)
        mono == [n \in 1..Samples(audio_float) |->
                    DivT(audio_float[1][n] + audio_float[Len(audio_float)][n], 2)]
    IN  <<LibBandPass(mono)>>
\* phone.apply_phone_effect
apply_phone_effect(data, params) ==
    LET audio_float == NormalizeIfLoud(data)
        mono == [n \in 1..Samples(audio_float) |->
                    DivT(audio_float[1][n] + audio_float[Len(audio_float)][n], 2)]
        downmixed == IF Channels(audio_float) > 1 THEN <<mono, mono>> ELSE audio_float
    IN  [c \in 1..Len(downmixed) |-> LibBandPass(downmixed[c])]

\* car.apply_car_effect
apply_car_effect(data, params) ==
    LET audio_float == NormalizeIfLoud(data)
        N == Samples(audio_float)
        mid == [n \in 1..N |-> DivT(audio_float[1][n] + audio_float[Len(audio_float)][n], 2)]
        side == [n \in 1..N |-> DivT(audio_float[1][n] - audio_float[Len(audio_float)][n], 2)]
        side_amplified == [n \in 1..N |-> DivT(side[n] * 3, 2)]
        enhanced ==
            IF Channels(audio_float) > 1
            THEN <<[n \in 1..N |-> mid[n] + side_amplified[n]],
                   [n \in 1..N |-> mid[n] - side_amplified[n]]>>
            ELSE <<audio_float[1], audio_float[1]>>
        filtered == [c \in 1..Len(enhanced) |-> LibLowPass(enhanced[c])]
    IN  RescaleIfClipping(filtered)

\* AudioFilterManager.filters: the registered names
AudioFilterNames ==
    {"gain_compression", "voice_enhancement", "denoise_delay", "phone", "car"}
\* the names process_audio adds sample_rate for
NeedsSampleRate == {"voice_enhancement", "denoise_delay", "phone", "car"}

\* the keyword parameters of each filter function
Keywords(name) ==
    CASE name = "gain_compression" -> {"threshold", "ratio"}
      [] name = "voice_enhancement" -> {"sample_rate", "alpha"}
      [] name = "denoise_delay" -> {"sample_rate", "delay_ms", "decay", "wiener_size"}
      [] OTHER -> {"sample_rate"}

\* filter_func(processed, **params) raises: a keyword the function does not have
\* (TypeError), or the echo slices of unequal length that delay_samples = 0 gives
\* (ValueError: delayed[0:] += decay * denoised[:-0])
FilterRaises(name, buf, params) ==
    \/ ~(Keys(params) \subseteq Keywords(name))
    \/ name = "denoise_delay" /\ DelaySamples(params) = 0 /\ Samples(buf) > 0

\* the caller's buffer after filter_func(buf, **params): every filter works on a
\* copy (np.copy / astype(np.float32)), the argument is left as it was
ArgAfter(name, buf, params) == buf

\* filter_func(processed, **params) when it returns
FilterValue(name, buf, params) ==
    CASE name = "gain_compression" -> apply_gain_compression(buf, params)
      [] name = "voice_enhancement" -> apply_voice_enhancement(buf, params)
      [] name = "denoise_delay" -> apply_denoise_delay(buf, params)
      [] name = "phone" -> apply_phone_effect(buf, params)
      [] OTHER -> apply_car_effect(buf, params)


-----------------------------------------------------------------------------
(* Media files and the external tool *)

\* a media file: its container, its video stream with the filters burnt into it, and
\* its audio track (the 16-bit stereo PCM it decodes to, and the codec it is stored in)
Media(container, hasVideo, vf, pcm, acodec) ==
    [kind |-> "media", container |-> container, hasVideo |-> hasVideo, vf |-> vf,
     pcm |-> pcm, acodec |-> acodec]
\* a WAV file holding a 16-bit buffer
Wav(pcm) ==
    [kind |-> "wav", container |-> "wav", hasVideo |-> FALSE, vf |-> <<>>,
     pcm |-> pcm, acodec |-> "pcm_s16le"]

\* a video filter as it is burnt into a stream
VOp(op, a, b) == [op |-> op, a |-> a, b |-> b]

\* "ffmpeg -i in <video filter> -c:a copy -y out": video re-encoded, audio copied
Transcode(c, op) == [c EXCEPT !.container = "encoded", !.vf = Append(@, op)]
\* "ffmpeg -i in -c copy -y out": every stream copied into a new container
StreamCopy(c) == [c EXCEPT !.container = "remuxed"]

\* what a run of the tool can end with
Outcomes(tool) == IF tool = "missing" THEN {"notfound"} ELSE {"ok", "nonzero"}
\* what a run of the tool reading the file at inp can end with: the tool exits
\* non-zero when there is no such file
OutcomesOn(tool, f, inp) ==
    IF Exists(f, inp) THEN Outcomes(tool) ELSE Outcomes(tool) \ {"ok"}
\* what a failed run leaves at its output path: nothing new, or a partial file
FailedWrites == {"none", "partial"}

\* one entry of the history of tool invocations
LogEntry(tool, step, i, r, inp, out, wrote) ==
    [tool |-> tool, step |-> step, i |-> i, r |-> r, inp |-> inp, out |-> out,
     wrote |-> wrote]

\* the file system after a run of ffmpeg writing to out: the result c when it
\* succeeds, otherwise nothing or a partial file
AfterRun(f, r, out, c, wrote) ==
    IF r = "ok" THEN Write(f, out, c)
    ELSE IF r = "nonzero" /\ wrote = "partial" THEN Write(f, out, Partial)
    ELSE f
Wrote(r, wrote) == IF r = "ok" THEN "full" ELSE IF r = "nonzero" THEN wrote ELSE "none"

\* the decimal digits of str(i)
IndexStr(i) == <<"0", "1", "2", "3", "4", "5", "6", "7", "8", "9">>[i + 1]

-----------------------------------------------------------------------------
(* VideoFilterManager *)

\* VideoFilterManager.filters: the registered names
VideoFilterNames == {"grayscale", "color_invert", "frame_interpolation", "upscaling"}

\* filter_config.get("params", {})
ParamsOf(filter_config) == IF filter_config.hasParams THEN filter_config.params ELSE {}

\* the first command a filter function runs
FirstVariant(name) ==
    CASE name = "grayscale" -> "format_gray"
      [] name = "color_invert" -> "negate"
      [] name = "frame_interpolation" -> "filters_query"
      [] OTHER -> "scale_lanczos"

\* handlers that only re-raise
FallbackVariant_none(variant) == "none"
\* handlers of frame_interpolation that run the fps command again whenever it fails
FallbackVariant_again(variant) ==
    CASE variant \in {"filters_query", "minterpolate", "fps", "fps_fallback"} -> "fps_fallback"
      [] variant = "scale_lanczos" -> "scale_fallback"
      [] OTHER -> "none"
\* the command of the "except subprocess.SubprocessError" handler of a filter
\* function, "none" when the handler only re-raises
FallbackVariant(variant) ==
    CASE variant \in {"filters_query", "minterpolate", "fps"} -> "fps_fallback"
      [] variant = "scale_lanczos" -> "scale_fallback"
      [] OTHER -> "none"

\* the filter graph of a command
VariantOp(variant, params) ==
    LET target_fps == Get(params, "target_fps", <<60, 1>>)[1]
        width == Get(params, "width", <<1920, 1>>)[1]
        height == Get(params, "height", <<1080, 1>>)[1]
    IN  CASE variant = "format_gray" -> VOp("format=gray", 0, 0)
          [] variant = "negate" -> VOp("negate", 0, 0)
          [] variant = "minterpolate" -> VOp("minterpolate", target_fps, 0)
          [] variant \in {"fps", "fps_fallback"} -> VOp("fps", target_fps, 0)
          [] variant = "scale_lanczos" -> VOp("scale:lanczos", width, height)
          [] OTHER -> VOp("scale", width, height)

\* the filter a burnt-in filter graph belongs to
OpFilter(op) ==
    CASE op.op = "format=gray" -> "grayscale"
      [] op.op = "negate" -> "color_invert"
      [] op.op \in {"minterpolate", "fps"} -> "frame_interpolation"
      [] OTHER -> "upscaling"

\* os.path.join(temp_processing_dir, f"temp_{i}_{os.path.basename(output_path)}")
VideoTempPath(i, output_path) ==
    Join(VideoTmp, <<"temp_", IndexStr(i), "_">> \o Basename(output_path))

\* intermediates that all go to the file of stage 0
CurrentOutput_one_temp(i, filters_config, output_path) ==
    IF i = Len(filters_config) - 1 THEN output_path ELSE VideoTempPath(0, output_path)
\* current_output of stage i
CurrentOutput(i, filters_config, output_path) ==
    IF i = Len(filters_config) - 1 THEN output_path ELSE VideoTempPath(i, output_path)

\* the empty chain's "except subprocess.SubprocessError": a non-zero exit
\* (CalledProcessError) is caught, FileNotFoundError is an OSError and is not
CopyFallsBack_never(r) == FALSE
CopyFallsBack(r) == r = "nonzero"

\* a temporary directory that is never cleaned up
ExitTempDir_leaves(f, d) == f
\* leaving "with tempfile.TemporaryDirectory()": the directory and its files are removed
ExitTempDir(f, d) == RemoveTree(f, d)

\* a handler that cleans up and leaves the output path as the failed stage left it
VideoFallback_no_copy(f, input_path, output_path) == ExitTempDir(f, VideoTmp)
\* the "except Exception" handler of process_video, entered after the with block
\* was left: shutil.copy2(input_path, output_path)
VideoFallback(f, input_path, output_path) ==
    Copy2(ExitTempDir(f, VideoTmp), input_path, output_path)


-----------------------------------------------------------------------------
(* AudioFilterManager and the audio utilities *)

\* the params process_audio passes: params["sample_rate"] = sample_rate for the
\* filters that take it
PassedParams(filter_config) ==
    IF filter_config.name \in NeedsSampleRate
    THEN Put(ParamsOf(filter_config), "sample_rate", <<SampleRate, 1>>)
    ELSE ParamsOf(filter_config)

\* the name of a FilterSpec that has no key "name"
Missing == "(missing)"
\* filter_config["name"] raises KeyError, outside the try of the iteration
NameRaises(filter_config) == filter_config.name = Missing

\* "for filter_config in filters_config": the FilterSpec of the i-th iteration
NextFilterConfig_reversed(filters_config, i) == filters_config[Len(filters_config) + 1 - i]
NextFilterConfig(filters_config, i) == filters_config[i]

\* an iteration that loses the buffer when the name is unknown or the filter raises
process_audio_step_resets(buf, filter_config) ==
    IF /\ filter_config.name \in AudioFilterNames
       /\ ~FilterRaises(filter_config.name, buf, PassedParams(filter_config))
    THEN FilterValue(filter_config.name, buf, PassedParams(filter_config))
    ELSE [c \in 1..Len(buf) |-> [n \in 1..Len(buf[c]) |-> 0]]
\* processed after one iteration of process_audio's loop: the filter's result, or
\* processed itself when the name is not registered or the filter raised
process_audio_step(buf, filter_config) ==
    IF /\ filter_config.name \in AudioFilterNames
       /\ ~FilterRaises(filter_config.name, buf, PassedParams(filter_config))
    THEN FilterValue(filter_config.name, buf, PassedParams(filter_config))
    ELSE buf

\* the caller's FilterSpec after the iteration: params is the dictionary stored under
\* "params" when there is one (a fresh {} otherwise), and sample_rate is written into it
filter_config_after(filter_config) ==
    IF filter_config.name \in AudioFilterNames /\ filter_config.hasParams
    THEN [filter_config EXCEPT !.params = PassedParams(filter_config)]
    ELSE filter_config

\* utils.save_audio_to_wav: the 16-bit samples written
save_audio_to_wav(data, dtype) ==
    LET F(v) == DivT(Max2(-Unit, Min2(Unit, v)) * Int16Max, Unit)
    IN  IF dtype # "int16"
        THEN [c \in 1..Len(data) |-> [n \in 1..Len(data[c]) |-> F(data[c][n])]]
        ELSE data

\* os.path.join(temp_dir, f"temp_audio_{os.path.basename(file_path)}.wav")
TempWavPath(file_path) == Join(AudioTmp, <<"temp_audio_">> \o Basename(file_path) \o <<".wav">>)
\* os.path.join(temp_dir, "processed_audio.wav")
ProcessedWavPath == Join(AudioTmp, <<"processed_audio", ".wav">>)

\* merge_audio_with_video: the extensions taken for audio-only input
AudioExtensions == {".mp3", ".wav", ".aac", ".ogg", ".flac", ".m4a"}
IsAudioOnly(input_path) == Ext(input_path) \in AudioExtensions

\* merge_audio_with_video: the command built: what it encodes and where it writes
MergeCommand(input_path, output_path, has_video) ==
    LET output_ext == Ext(output_path)
    IN  IF IsAudioOnly(input_path)
        THEN CASE output_ext = ".mp3" ->
                    [video |-> FALSE, codec |-> "libmp3lame", out |-> output_path]
               [] output_ext \in {".m4a", ".aac"} ->
                    [video |-> FALSE, codec |-> "aac", out |-> output_path]
               [] output_ext = ".wav" ->
                    [video |-> FALSE, codec |-> "pcm_s16le", out |-> output_path]
               [] OTHER ->
                    [video |-> FALSE, codec |-> "libmp3lame",
                     out |-> WithExt(output_path, ".mp3")]
        ELSE IF has_video
        THEN [video |-> TRUE, codec |-> "aac", out |-> output_path]
        ELSE IF output_ext = ".mp3"
        THEN [video |-> FALSE, codec |-> "libmp3lame", out |-> output_path]
        ELSE [video |-> FALSE, codec |-> "aac", out |-> output_path]

\* the file the merge command produces from the source and the processed WAV
MergeResult(cmd, source, wav) ==
    IF cmd.video
    THEN Media("muxed", TRUE, source.vf, wav.pcm, cmd.codec)
    ELSE Media("encoded", FALSE, <<>>, wav.pcm, cmd.codec)

\* a fallback that cleans up and leaves the output path as the failed step left it
AudioFallback_no_copy(f, input_path, output_path) == ExitTempDir(f, AudioTmp)
\* a fallback of AudioFilterManager.process_video: shutil.copy2(input_path,
\* output_path), and the temporary directory is gone when the call returns
AudioFallback(f, input_path, output_path) ==
    ExitTempDir(Copy2(f, input_path, output_path), AudioTmp)

-----------------------------------------------------------------------------
(* The calls that are tried *)

\* a FilterSpec: {"name": ..., "params": {...}}; hasParams tells whether the
\* dictionary has the key "params" at all
FilterSpec(name, hasParams, params) ==
    [name |-> name, hasParams |-> hasParams, params |-> params]

VideoSpecs ==
    { FilterSpec("grayscale", FALSE, {}),
      FilterSpec("color_invert", TRUE, {}),
      FilterSpec("frame_interpolation", TRUE, {<<"target_fps", <<30, 1>>>>}),
      FilterSpec("upscaling", FALSE, {}),
      FilterSpec("sepia", TRUE, {}) }

AudioSpecs ==
    { FilterSpec("gain_compression", TRUE, {<<"threshold", <<1, 2>>>>, <<"ratio", <<4, 1>>>>}),
      FilterSpec("gain_compression", TRUE, {<<"threshold", <<1, 4>>>>, <<"ratio", <<2, 1>>>>}),
      FilterSpec("voice_enhancement", TRUE, {<<"alpha", <<95, 100>>>>}),
      FilterSpec("phone", FALSE, {}),
      FilterSpec("denoise_delay", TRUE, {<<"delay_ms", <<0, 1>>>>}),
      FilterSpec("reverb", TRUE, {}) }

\* the output extensions tried for the audio orchestrator
OutputExts == {".mp4", ".mp3", ".wav", ".m4a"}

RECURSIVE ChainsOf(_, _)
\* the chains of at most n FilterSpecs of S
ChainsOf(S, n) ==
    IF n = 0 THEN {<<>>}
    ELSE LET shorter == ChainsOf(S, n - 1)
         IN  shorter \cup {Append(c, x) : c \in {d \in shorter : Len(d) = n - 1}, x \in S}

\* the 16-bit stereo tracks of the sources: <<left channel, right channel>>
Buffers ==
    { << <<32767, -32768, 16384>>, <<8192, 0, -16384>> >>,
      << <<0, 1, -1>>, <<1, 0, 0>> >> }

\* the sources: extension and whether the file holds a video stream
SourceKinds ==
    { [ext |-> ".mp4", hasVideo |-> TRUE],
      [ext |-> ".mp4", hasVideo |-> FALSE],
      [ext |-> ".mp3", hasVideo |-> FALSE] }

SourcePath(kind) == Join("uploads", <<"id_", "clip", kind.ext>>)
SourceContent(kind, pcm) == Media("original", kind.hasVideo, <<>>, pcm, "original")
OutputPath(ext) == Join("processed", <<"processed_", "id_", "clip", ext>>)
\* no response sent yet
NoResponse == [op |-> "none", video_id |-> "", status |-> 0]
\* no response body delivered
NotServed ==
    [kind |-> "none", container |-> "none", hasVideo |-> FALSE, vf |-> <<>>,
     pcm |-> NoBuffer, acodec |-> "none"]
\* open(video_path) raised while the body was read
OpenFailed == [NotServed EXCEPT !.kind = "error"]
\* no upload request handled last
NoRequest == [op |-> "none", ext |-> ""]
\* a file left at the output path by an earlier call
Stale == Media("stale", FALSE, <<>>, NoBuffer, "stale")

\* the file system at the call: the source, and possibly an old file at the output path
FsAtCall(src, content, out, stale) ==
    IF stale THEN Write(Write(<<>>, src, content), out, Stale)
    ELSE Write(<<>>, src, content)

\* the installations: ffprobe ships with ffmpeg, or is the only one missing
Installations ==
    { [ffmpeg |-> "present", ffprobe |-> "present"],
      [ffmpeg |-> "present", ffprobe |-> "missing"],
      [ffmpeg |-> "missing", ffprobe |-> "missing"] }

-----------------------------------------------------------------------------
(* State machine *)

\* the state before anything is called: no file, empty registry, nothing running
Idle ==
    /\ fs = <<>>
    /\ tmpdirs = {}
    /\ ffmpeg = "present"
    /\ ffprobe = "present"
    /\ source0 = Stale
    /\ log = <<>>
    /\ vpc = "idle"
    /\ v_input_path = NoPath
    /\ v_output_path = NoPath
    /\ v_filters_config = <<>>
    /\ v_config0 = <<>>
    /\ v_i = 0
    /\ v_temp_output = NoPath
    /\ v_current_output = NoPath
    /\ v_variant = "none"
    /\ v_failed = FALSE
    /\ apc = "idle"
    /\ a_input_path = NoPath
    /\ a_output_path = NoPath
    /\ a_filters_config = <<>>
    /\ a_config0 = <<>>
    /\ audio_data = NoBuffer
    /\ processed = NoBuffer
    /\ a_i = 1
    /\ a_trace = <<>>
    /\ has_video_stream = FALSE
    /\ a_failed = "none"
    /\ v_result = NoPath
    /\ a_saved = "none"
    /\ a_result = NoPath
    /\ f_hist = <<>>
    /\ videos = <<>>
    /\ hpc = "idle"
    /\ h_id = ""
    /\ current_input = NoPath
    /\ h_response = NoResponse
    /\ inflight = 0
    /\ h_overlap = FALSE
    /\ s_path = NoPath
    /\ h_served = NotServed
    /\ h_request = NoRequest
    /\ h_applied = <<>>
    /\ h_videos0 = <<>>

Init == Idle /\ f_in0 = NoBuffer

\* a caller calls VideoFilterManager.process_video(input_path, output_path, filters_config)
CallVideo ==
    /\ vpc = "idle" /\ apc = "idle"
    /\ \E kind \in SourceKinds, chain \in ChainsOf(VideoSpecs, MaxVideoChain),
          stale \in BOOLEAN, inst \in Installations :
        LET content == SourceContent(kind, CHOOSE b \in Buffers : TRUE)
        IN  /\ fs' = FsAtCall(SourcePath(kind), content, OutputPath(kind.ext), stale)
            /\ source0' = content
            /\ ffmpeg' = inst.ffmpeg
            /\ ffprobe' = inst.ffprobe
            /\ v_input_path' = SourcePath(kind)
            /\ v_output_path' = OutputPath(kind.ext)
            /\ v_filters_config' = chain
            /\ v_config0' = chain
    /\ vpc' = "entry"
    /\ UNCHANGED <<tmpdirs, log, v_i, v_temp_output, v_current_output, v_variant,
                   v_failed, v_result, avars, fvars, hvars>>

\* process_video up to the loop: "if not filters_config", temp_output = input_path,
\* entering the with block
VideoEntry ==
    /\ vpc = "entry"
    /\ IF v_filters_config = <<>>
       THEN /\ vpc' = "copy"
            /\ UNCHANGED <<tmpdirs, v_temp_output, v_i>>
       ELSE /\ vpc' = "loop"
            /\ tmpdirs' = tmpdirs \cup {VideoTmp}
            /\ v_temp_output' = v_input_path
            /\ v_i' = 0
    /\ UNCHANGED <<fs, ffmpeg, ffprobe, source0, log, v_input_path, v_output_path,
                   v_filters_config, v_config0, v_current_output, v_variant, v_failed,
                   v_result, avars, fvars, hvars>>

\* the empty chain: one "ffmpeg -c copy"; a SubprocessError is answered by
\* shutil.copy2, a FileNotFoundError is not caught
VideoCopy ==
    /\ vpc = "copy"
    /\ \E r \in Outcomes(ffmpeg), wrote \in FailedWrites :
        LET ran == AfterRun(fs, r, v_output_path, StreamCopy(fs[v_input_path]), wrote)
        IN  /\ log' = Append(log, LogEntry("ffmpeg", "stream_copy", 0, r, v_input_path,
                                           v_output_path, Wrote(r, wrote)))
            /\ fs' = IF CopyFallsBack(r) THEN Copy2(ran, v_input_path, v_output_path) ELSE ran
            /\ vpc' = IF r = "ok" \/ CopyFallsBack(r) THEN "returned" ELSE "raised"
            /\ v_result' = IF r = "ok" \/ CopyFallsBack(r) THEN v_output_path ELSE v_result
    /\ UNCHANGED <<tmpdirs, ffmpeg, ffprobe, source0, v_input_path, v_output_path,
                   v_filters_config, v_config0, v_i, v_temp_output, v_current_output, v_variant,
                   v_failed, avars, fvars, hvars>>

\* one pass through the head of the loop: the loop ends (the with block is left and
\* final_output returned), or a registered filter's function is entered, or the
\* name is not registered and the loop goes on
VideoLoop ==
    /\ vpc = "loop"
    /\ IF v_i = Len(v_filters_config)
       THEN /\ vpc' = "returned"
            /\ v_result' = v_output_path
            /\ fs' = ExitTempDir(fs, VideoTmp)
            /\ tmpdirs' = tmpdirs \ {VideoTmp}
            /\ UNCHANGED <<v_i, v_current_output, v_variant>>
       ELSE IF v_filters_config[v_i + 1].name \in VideoFilterNames
       THEN /\ vpc' = "run"
            /\ v_current_output' = CurrentOutput(v_i, v_filters_config, v_output_path)
            /\ v_variant' = FirstVariant(v_filters_config[v_i + 1].name)
            /\ UNCHANGED <<fs, tmpdirs, v_i, v_result>>
       ELSE /\ v_i' = v_i + 1
            /\ UNCHANGED <<fs, tmpdirs, vpc, v_current_output, v_variant, v_result>>
    /\ UNCHANGED <<ffmpeg, ffprobe, source0, log, v_input_path, v_output_path,
                   v_filters_config, v_config0, v_temp_output, v_failed, avars, fvars, hvars>>

\* what follows a command that succeeded: the filter function returns and the loop
\* body ends with "if i < len(filters_config) - 1: temp_output = current_output"
StageDone ==
    /\ vpc' = "loop"
    /\ v_temp_output' =
         IF v_i < Len(v_filters_config) - 1 THEN v_current_output ELSE v_temp_output
    /\ v_i' = v_i + 1
    /\ v_variant' = "none"
    /\ UNCHANGED <<tmpdirs, v_failed, v_result>>

\* what follows a command that failed: the handler's simpler command when the
\* failure is a SubprocessError and the filter has one, otherwise the exception
\* reaches process_video, whose handler copies the source and returns output_path;
\* when there is no file at input_path the copy raises and process_video with it
StageFailed(r, ran) ==
    IF r = "nonzero" /\ FallbackVariant(v_variant) # "none"
    THEN /\ v_variant' = FallbackVariant(v_variant)
         /\ fs' = ran
         /\ UNCHANGED <<vpc, v_i, v_temp_output, tmpdirs, v_failed, v_result>>
    ELSE /\ tmpdirs' = tmpdirs \ {VideoTmp}
         /\ v_failed' = TRUE
         /\ IF Exists(ran, v_input_path)
            THEN /\ fs' = VideoFallback(ran, v_input_path, v_output_path)
                 /\ vpc' = "returned"
                 /\ v_result' = v_output_path
            ELSE /\ fs' = ExitTempDir(ran, VideoTmp)
                 /\ vpc' = "raised"
                 /\ UNCHANGED v_result
         /\ UNCHANGED <<v_i, v_temp_output, v_variant>>

\* frame_interpolation's "ffmpeg -filters": picks minterpolate or fps
VideoQuery ==
    /\ vpc = "run" /\ v_variant = "filters_query"
    /\ \E r \in Outcomes(ffmpeg), available \in BOOLEAN :
        /\ log' = Append(log, LogEntry("ffmpeg", v_variant, v_i, r, NoPath, NoPath, "none"))
        /\ IF r = "ok"
           THEN /\ v_variant' = IF available THEN "minterpolate" ELSE "fps"
                /\ UNCHANGED <<fs, vpc, v_i, v_temp_output, tmpdirs, v_failed, v_result>>
           ELSE StageFailed(r, fs)
    /\ UNCHANGED <<ffmpeg, ffprobe, source0, v_input_path, v_output_path,
                   v_filters_config, v_config0, v_current_output, avars, fvars, hvars>>

\* one run of a filter's ffmpeg command from temp_output to current_output
VideoRun ==
    /\ vpc = "run" /\ v_variant # "filters_query"
    /\ \E r \in OutcomesOn(ffmpeg, fs, v_temp_output), wrote \in FailedWrites :
        LET params == ParamsOf(v_filters_config[v_i + 1])
            result == Transcode(fs[v_temp_output], VariantOp(v_variant, params))
            ran == AfterRun(fs, r, v_current_output, result, wrote)
        IN  /\ log' = Append(log, LogEntry("ffmpeg", v_variant, v_i, r, v_temp_output,
                                           v_current_output, Wrote(r, wrote)))
            /\ IF r = "ok"
               THEN fs' = ran /\ StageDone
               ELSE StageFailed(r, ran)
    /\ UNCHANGED <<ffmpeg, ffprobe, source0, v_input_path, v_output_path,
                   v_filters_config, v_config0, v_current_output, avars, fvars, hvars>>

\* a caller calls AudioFilterManager.process_video(input_path, output_path, filters_config)
CallAudio ==
    /\ vpc = "idle" /\ apc = "idle"
    /\ \E kind \in SourceKinds, ext \in OutputExts, pcm \in Buffers,
          chain \in ChainsOf(AudioSpecs, MaxAudioChain),
          stale \in BOOLEAN, inst \in Installations :
        /\ fs' = FsAtCall(SourcePath(kind), SourceContent(kind, pcm), OutputPath(ext), stale)
        /\ source0' = SourceContent(kind, pcm)
        /\ ffmpeg' = inst.ffmpeg
        /\ ffprobe' = inst.ffprobe
        /\ a_input_path' = SourcePath(kind)
        /\ a_output_path' = OutputPath(ext)
        /\ a_filters_config' = chain
        /\ a_config0' = chain
    /\ apc' = "entry"
    /\ UNCHANGED <<tmpdirs, log, audio_data, processed, a_i, a_trace, has_video_stream,
                   a_failed, a_saved, a_result, vvars, fvars, hvars>>

\* process_video up to the extraction: the empty chain is answered by shutil.copy2,
\* otherwise the with block is entered
AudioEntry ==
    /\ apc = "entry"
    /\ IF a_filters_config = <<>>
       THEN /\ fs' = Copy2(fs, a_input_path, a_output_path)
            /\ apc' = "returned"
            /\ a_result' = a_output_path
            /\ UNCHANGED tmpdirs
       ELSE /\ tmpdirs' = tmpdirs \cup {AudioTmp}
            /\ apc' = "extract"
            /\ UNCHANGED <<fs, a_result>>
    /\ UNCHANGED <<ffmpeg, ffprobe, source0, log, a_input_path, a_output_path,
                   a_filters_config, a_config0, audio_data, processed, a_i, a_trace,
                   has_video_stream, a_failed, a_saved, vvars, fvars, hvars>>

\* extract_audio_from_video and, when it returns, the first line of process_audio;
\* when it raises, process_video copies the source and returns
AudioExtract ==
    /\ apc = "extract"
    /\ \E r \in Outcomes(ffmpeg), wrote \in FailedWrites :
        LET temp_wav == TempWavPath(a_input_path)
            ran == AfterRun(fs, r, temp_wav, Wav(fs[a_input_path].pcm), wrote)
        IN  /\ log' = Append(log, LogEntry("ffmpeg", "extract", 0, r, a_input_path,
                                           temp_wav, Wrote(r, wrote)))
            /\ IF r = "ok"
               THEN /\ fs' = ran
                    /\ audio_data' = ran[temp_wav].pcm
                    /\ processed' = AsFloat(ran[temp_wav].pcm)
                    /\ a_trace' = <<AsFloat(ran[temp_wav].pcm)>>
                    /\ a_i' = 1
                    /\ apc' = "filter"
                    /\ UNCHANGED <<tmpdirs, a_failed, a_result>>
               ELSE /\ fs' = AudioFallback(ran, a_input_path, a_output_path)
                    /\ tmpdirs' = tmpdirs \ {AudioTmp}
                    /\ a_failed' = "extract"
                    /\ apc' = "returned"
                    /\ a_result' = a_output_path
                    /\ UNCHANGED <<audio_data, processed, a_trace, a_i>>
    /\ UNCHANGED <<ffmpeg, ffprobe, source0, a_input_path, a_output_path,
                   a_filters_config, a_config0, has_video_stream, a_saved, vvars, fvars, hvars>>

\* one iteration of process_audio's loop, or its return when the chain is exhausted
AudioFilter ==
    /\ apc = "filter"
    /\ IF a_i <= Len(a_filters_config) /\ NameRaises(NextFilterConfig(a_filters_config, a_i))
       THEN \* process_audio raises: "processed_audio = audio_data" in process_video
            /\ processed' = audio_data
            /\ apc' = "save"
            /\ UNCHANGED <<a_filters_config, a_trace, a_i>>
       ELSE IF a_i <= Len(a_filters_config)
       THEN /\ processed' =
                 process_audio_step(processed, NextFilterConfig(a_filters_config, a_i))
            /\ a_filters_config' =
                 [a_filters_config EXCEPT ![a_i] = filter_config_after(@)]
            /\ a_trace' = Append(a_trace, processed')
            /\ a_i' = a_i + 1
            /\ UNCHANGED apc
       ELSE /\ apc' = "save"
            /\ UNCHANGED <<processed, a_filters_config, a_trace, a_i>>
    /\ UNCHANGED <<fs, tmpdirs, ffmpeg, ffprobe, source0, log, a_input_path,
                   a_output_path, a_config0, audio_data, has_video_stream, a_failed,
                   a_saved, a_result, vvars, fvars, hvars>>

\* process_audio left its loop by an exception in iteration a_i
process_audio_raised == a_i <= Len(a_filters_config)
\* the dtype of processed_audio: float32 from process_audio, the extracted int16
\* after "processed_audio = audio_data"
processed_dtype == IF process_audio_raised THEN "int16" ELSE "float32"

\* save_audio_to_wav(processed_audio); when writing fails, save_audio_to_wav(audio_data);
\* when that fails too the exception leaves the with block and the outer handler
\* copies the source
AudioSave ==
    /\ apc = "save"
    /\ \E saved \in {"processed", "original", "neither"} :
        CASE saved = "processed" ->
                /\ fs' = Write(fs, ProcessedWavPath,
                             Wav(save_audio_to_wav(processed, processed_dtype)))
                /\ apc' = "merge"
                /\ a_saved' = saved
                /\ UNCHANGED <<tmpdirs, a_failed, a_result>>
          [] saved = "original" ->
                /\ fs' = Write(fs, ProcessedWavPath, Wav(save_audio_to_wav(audio_data, "int16")))
                /\ apc' = "merge"
                /\ a_saved' = saved
                /\ UNCHANGED <<tmpdirs, a_failed, a_result>>
          [] OTHER ->
                /\ fs' = Copy2(ExitTempDir(fs, AudioTmp), a_input_path, a_output_path)
                /\ tmpdirs' = tmpdirs \ {AudioTmp}
                /\ a_failed' = "save"
                /\ apc' = "returned"
                /\ a_result' = a_output_path
                /\ UNCHANGED a_saved
    /\ UNCHANGED <<ffmpeg, ffprobe, source0, log, a_input_path, a_output_path,
                   a_filters_config, a_config0, audio_data, processed, a_i, a_trace,
                   has_video_stream, vvars, fvars, hvars>>

\* merge_audio_with_video for an input whose extension is not an audio one: the
\* ffprobe run (its exit status is not checked); a missing ffprobe raises
AudioProbe ==
    /\ apc = "merge" /\ ~IsAudioOnly(a_input_path)
    /\ \E r \in Outcomes(ffprobe) :
        /\ log' = Append(log, LogEntry("ffprobe", "probe", 0, r, a_input_path, NoPath, "none"))
        /\ IF r = "notfound"
           THEN /\ fs' = AudioFallback(fs, a_input_path, a_output_path)
                /\ tmpdirs' = tmpdirs \ {AudioTmp}
                /\ a_failed' = "probe"
                /\ apc' = "returned"
                /\ a_result' = a_output_path
                /\ UNCHANGED has_video_stream
           ELSE /\ has_video_stream' = (r = "ok" /\ fs[a_input_path].hasVideo)
                /\ apc' = "merge_run"
                /\ UNCHANGED <<fs, tmpdirs, a_failed, a_result>>
    /\ UNCHANGED <<ffmpeg, ffprobe, source0, a_input_path, a_output_path,
                   a_filters_config, a_config0, audio_data, processed, a_i, a_trace,
                   a_saved, vvars, fvars, hvars>>

\* merge_audio_with_video: the ffmpeg run of the command built; when it raises,
\* process_video copies the source; then the with block is left and process_video returns
AudioMerge ==
    /\ \/ apc = "merge" /\ IsAudioOnly(a_input_path)
       \/ apc = "merge_run"
    /\ \E r \in Outcomes(ffmpeg), wrote \in FailedWrites :
        LET cmd == MergeCommand(a_input_path, a_output_path, has_video_stream)
            result == MergeResult(cmd, fs[a_input_path], fs[ProcessedWavPath])
            ran == AfterRun(fs, r, cmd.out, result, wrote)
        IN  /\ log' = Append(log, LogEntry("ffmpeg", "merge", 0, r, ProcessedWavPath,
                                           cmd.out, Wrote(r, wrote)))
            /\ IF r = "ok"
               THEN /\ fs' = ExitTempDir(ran, AudioTmp)
                    /\ UNCHANGED a_failed
               ELSE /\ fs' = AudioFallback(ran, a_input_path, a_output_path)
                    /\ a_failed' = "merge"
    /\ tmpdirs' = tmpdirs \ {AudioTmp}
    /\ apc' = "returned"
    /\ a_result' = a_output_path
    /\ UNCHANGED <<ffmpeg, ffprobe, source0, a_input_path, a_output_path,
                   a_filters_config, a_config0, audio_data, processed, a_i, a_trace,
                   has_video_stream, a_saved, vvars, fvars, hvars>>

Next ==
    \/ CallVideo
    \/ VideoEntry
    \/ VideoCopy
    \/ VideoLoop
    \/ VideoQuery
    \/ VideoRun
    \/ CallAudio
    \/ AudioEntry
    \/ AudioExtract
    \/ AudioFilter
    \/ AudioSave
    \/ AudioProbe
    \/ AudioMerge

Spec == Init /\ [][Next]_vars

\* a step of an orchestrator that was called: every run of the external tool exits
\* and the call, which is synchronous, goes on
OrchestratorStep ==
    \/ VideoEntry
    \/ VideoCopy
    \/ VideoLoop
    \/ VideoQuery
    \/ VideoRun
    \/ AudioEntry
    \/ AudioExtract
    \/ AudioFilter
    \/ AudioSave
    \/ AudioProbe
    \/ AudioMerge

\* the chains of the calls whose end is checked: empty, with a name that is not
\* registered, and with stages that have a query and simpler commands
LiveVideoChains ==
    { <<>>,
      <<FilterSpec("frame_interpolation", TRUE, {<<"target_fps", <<30, 1>>>>})>>,
      <<FilterSpec("grayscale", FALSE, {}), FilterSpec("sepia", TRUE, {})>>,
      <<FilterSpec("upscaling", FALSE, {}), FilterSpec("color_invert", TRUE, {}),
        FilterSpec("frame_interpolation", TRUE, {<<"target_fps", <<30, 1>>>>})>> }
LiveAudioChains ==
    { <<>>,
      <<FilterSpec("phone", FALSE, {})>>,
      <<FilterSpec("denoise_delay", TRUE, {<<"delay_ms", <<0, 1>>>>}),
        FilterSpec("reverb", TRUE, {})>>,
      <<FilterSpec("gain_compression", TRUE, {<<"threshold", <<1, 2>>>>, <<"ratio", <<4, 1>>>>}),
        FilterSpec(Missing, TRUE, {})>> }

CallVideoLive ==
    /\ vpc = "idle" /\ apc = "idle"
    /\ \E kind \in SourceKinds, chain \in LiveVideoChains, inst \in Installations :
        LET content == SourceContent(kind, CHOOSE b \in Buffers : TRUE)
        IN  /\ fs' = FsAtCall(SourcePath(kind), content, OutputPath(kind.ext), FALSE)
            /\ source0' = content
            /\ ffmpeg' = inst.ffmpeg
            /\ ffprobe' = inst.ffprobe
            /\ v_input_path' = SourcePath(kind)
            /\ v_output_path' = OutputPath(kind.ext)
            /\ v_filters_config' = chain
            /\ v_config0' = chain
    /\ vpc' = "entry"
    /\ UNCHANGED <<tmpdirs, log, v_i, v_temp_output, v_current_output, v_variant,
                   v_failed, v_result, avars, fvars, hvars>>

CallAudioLive ==
    /\ vpc = "idle" /\ apc = "idle"
    /\ \E kind \in SourceKinds, ext \in OutputExts, chain \in LiveAudioChains,
          inst \in Installations :
        LET content == SourceContent(kind, CHOOSE b \in Buffers : TRUE)
        IN  /\ fs' = FsAtCall(SourcePath(kind), content, OutputPath(ext), FALSE)
            /\ source0' = content
            /\ ffmpeg' = inst.ffmpeg
            /\ ffprobe' = inst.ffprobe
            /\ a_input_path' = SourcePath(kind)
            /\ a_output_path' = OutputPath(ext)
            /\ a_filters_config' = chain
            /\ a_config0' = chain
    /\ apc' = "entry"
    /\ UNCHANGED <<tmpdirs, log, audio_data, processed, a_i, a_trace, has_video_stream,
                   a_failed, a_saved, a_result, vvars, fvars, hvars>>

NextLive ==
    \/ CallVideoLive
    \/ CallAudioLive
    \/ OrchestratorStep

SpecLive == Init /\ [][NextLive]_vars /\ WF_vars(OrchestratorStep)


-----------------------------------------------------------------------------
(* AudioFilterManager.process_video called on any kind of source, next to it or not *)

\* the sources: also a file with an audio extension that holds a video stream
RemuxSourceKinds == SourceKinds \cup {[ext |-> ".ogg", hasVideo |-> TRUE]}
\* the output paths: in the processed directory, or beside the source under
\* another extension
RemuxOutputs(kind) ==
    {OutputPath(ext) : ext \in OutputExts}
        \cup {WithExt(SourcePath(kind), ext) : ext \in OutputExts \ {kind.ext}}
\* the FilterSpecs: also one that has no name
RemuxSpecs == AudioSpecs \cup {FilterSpec(Missing, TRUE, {})}
\* the chains: empty, one FilterSpec, or longer ones that end in the one without name
RemuxChains ==
    {chain \in ChainsOf(RemuxSpecs, MaxAudioChain) :
        Len(chain) <= 1 \/ NameRaises(chain[Len(chain)])}

CallRemux ==
    /\ vpc = "idle" /\ apc = "idle"
    /\ \E kind \in RemuxSourceKinds, chain \in RemuxChains, stale \in BOOLEAN,
          inst \in Installations :
        \E out \in RemuxOutputs(kind) :
            LET content == SourceContent(kind, CHOOSE b \in Buffers : TRUE)
            IN  /\ fs' = FsAtCall(SourcePath(kind), content, out, stale)
                /\ source0' = content
                /\ ffmpeg' = inst.ffmpeg
                /\ ffprobe' = inst.ffprobe
                /\ a_input_path' = SourcePath(kind)
                /\ a_output_path' = out
                /\ a_filters_config' = chain
                /\ a_config0' = chain
    /\ apc' = "entry"
    /\ UNCHANGED <<tmpdirs, log, audio_data, processed, a_i, a_trace, has_video_stream,
                   a_failed, a_saved, a_result, vvars, fvars, hvars>>

NextRemux ==
    \/ CallRemux
    \/ AudioEntry
    \/ AudioExtract
    \/ AudioFilter
    \/ AudioSave
    \/ AudioProbe
    \/ AudioMerge

SpecRemux == Init /\ [][NextRemux]_vars

-----------------------------------------------------------------------------
(* The filter functions called on their own *)

\* the buffers the filters are called with: mono and stereo, samples at, below and
\* above the thresholds and above 1.0
FilterInputs ==
    { << <<0, 32767, -32768>> >>,
      << <<65534, -65534, 16383>> >>,
      << <<-16384, 20000, 40000>> >>,
      << <<100000, -5, 131068>> >>,
      << <<0, 32767, -32768>>, <<65534, -40000, 16384>> >>,
      << <<20000, -20000, 100>>, <<-16383, 16383, 0>> >>,
      << <<131068, 1, -1>>, <<0, 0, -100000>> >> }

\* the calls: filter name and keyword arguments
FilterCall(name, params) == [name |-> name, params |-> params]
FilterCalls ==
    { FilterCall("gain_compression", {}),
      FilterCall("gain_compression", {<<"threshold", <<1, 4>>>>, <<"ratio", <<2, 1>>>>}),
      FilterCall("gain_compression", {<<"threshold", <<1, 2>>>>, <<"ratio", <<3, 2>>>>}),
      FilterCall("gain_compression", {<<"threshold", <<1, 1>>>>, <<"ratio", <<4, 1>>>>}),
      FilterCall("gain_compression", {<<"threshold", <<1, 2>>>>, <<"ratio", <<1, 1>>>>}),
      FilterCall("voice_enhancement", {<<"sample_rate", <<SampleRate, 1>>>>}),
      FilterCall("denoise_delay", {<<"sample_rate", <<1000, 1>>>>, <<"delay_ms", <<1, 1>>>>}),
      FilterCall("denoise_delay", {<<"sample_rate", <<SampleRate, 1>>>>}),
      FilterCall("denoise_delay", {<<"delay_ms", <<0, 1>>>>}),
      FilterCall("denoise_delay", {<<"sample_rate", <<1000, 1>>>>, <<"delay_ms", <<3, 2>>>>}),
      FilterCall("denoise_delay", {<<"sample_rate", <<1000, 1>>>>, <<"delay_ms", <<7, 4>>>>}),
      FilterCall("phone", {<<"sample_rate", <<SampleRate, 1>>>>}),
      FilterCall("car", {}) }

InitFilters == Idle /\ f_in0 \in FilterInputs

\* a filter function is called on the buffer, or on the result of the call before
ApplyFilter ==
    /\ f_in0 # NoBuffer
    /\ Len(f_hist) < MaxStages
    /\ f_hist # <<>> => ~f_hist[Len(f_hist)].raised
    /\ \E call \in FilterCalls :
        LET inp == IF f_hist = <<>> THEN f_in0 ELSE f_hist[Len(f_hist)].out
            raised == FilterRaises(call.name, inp, call.params)
        IN  f_hist' = Append(f_hist,
                [name |-> call.name, params |-> call.params, inp |-> inp,
                 raised |-> raised,
                 out |-> IF raised THEN NoBuffer
                         ELSE FilterValue(call.name, inp, call.params),
                 arg_after |-> ArgAfter(call.name, inp, call.params)])
    /\ UNCHANGED <<fs, tmpdirs, ffmpeg, ffprobe, source0, log, vvars, avars, f_in0, hvars>>

NextFilters == ApplyFilter

SpecFilters == InitFilters /\ [][NextFilters]_vars

-----------------------------------------------------------------------------
(* save_audio_to_wav called on its own *)

\* the floats that are not finite: np.inf, -np.inf and np.nan
PosInf == 1000000000
NegInf == -PosInf
NaN == 2000000000
NonFinite == {PosInf, NegInf, NaN}

\* astype(np.int16) of a NaN: the conversion is undefined, the build decides
NaNAsInt16 == {0, -32768}

\* the 16-bit values one float sample may be written as: np.clip keeps a NaN and
\* takes an infinity to the bound on its side
SampleOutcomes(v) ==
    IF v = NaN THEN NaNAsInt16
    ELSE {save_audio_to_wav(<< <<v>> >>, "float32")[1][1]}

RECURSIVE ChannelOutcomes(_)
ChannelOutcomes(x) ==
    IF x = <<>> THEN {<<>>}
    ELSE {<<h>> \o t : h \in SampleOutcomes(Head(x)), t \in ChannelOutcomes(Tail(x))}

\* the float samples tried: 0.0, 0.5, -2.0 and the non-finite ones
SaveSamples == {0, Unit \div 2, -2 * Unit} \cup NonFinite
\* the buffers save_audio_to_wav is called with: one channel, three samples
SaveInputs == {<< <<a, b, c>> >> : a \in SaveSamples, b \in SaveSamples, c \in SaveSamples}

InitSave == Idle /\ f_in0 \in SaveInputs

\* save_audio_to_wav is called on the buffer: the samples handed to wavfile.write
SaveWav ==
    /\ f_in0 # NoBuffer
    /\ f_hist = <<>>
    /\ \E written \in ChannelOutcomes(f_in0[1]) :
        f_hist' = <<[name |-> "save_audio_to_wav", params |-> {}, inp |-> f_in0,
                     raised |-> FALSE, out |-> <<written>>, arg_after |-> f_in0]>>
    /\ UNCHANGED <<fs, tmpdirs, ffmpeg, ffprobe, source0, log, vvars, avars, f_in0, hvars>>

NextSave == SaveWav

SpecSave == InitSave /\ [][NextSave]_vars


-----------------------------------------------------------------------------
(* The endpoints: upload, configure, apply, delete *)

\* str(uuid.uuid4()) of the upload, and the ids requests are made with
VideoId == "id"
RequestIds == {VideoId, "other"}
\* the ids uuid4 draws from
UploadIds == {VideoId, "id2"}
\* uuid.uuid4(): an id that no registered file has
NewId(registry) ==
    IF VideoId \notin DOMAIN registry THEN VideoId
    ELSE CHOOSE id \in UploadIds : id \notin DOMAIN registry
\* os.path.join(settings.UPLOAD_DIR, f"{video_id}_{filename}")
UploadPath(video_id, kind) ==
    IF video_id = VideoId THEN SourcePath(kind)
    ELSE Join("uploads", <<"id2_", "clip", kind.ext>>)
\* settings.ALLOWED_FORMATS
AllowedFormats == {".mp4", ".avi", ".mov", ".mkv", ".mp3", ".wav", ".aac", ".ogg"}

\* a registry that never counts as holding a file
HasVideos_never(registry) == FALSE
\* "if videos:": the registry holds a file
HasVideos(registry) == DOMAIN registry # {}

\* apply_filters' temp_dir
ApiTmp == "tmp_apply"
\* os.path.join(temp_dir, "temp_video.mp4")
TempVideoPath == Join(ApiTmp, <<"temp_video", ".mp4">>)
\* os.path.join(settings.PROCESSED_DIR, f"processed_{os.path.basename(input_file)}")
ProcessedPath(input_file) == Join("processed", <<"processed_">> \o Basename(input_file))

\* the "config" of a fresh upload: {}
NoConfig == [set |-> FALSE, audio_filters |-> <<>>, video_filters |-> <<>>]
\* a config with both lists
Config(audio_filters, video_filters) ==
    [set |-> TRUE, audio_filters |-> audio_filters, video_filters |-> video_filters]

\* the chains that are configured
ApiAudioChains ==
    { <<>>,
      <<FilterSpec("gain_compression", TRUE,
                   {<<"threshold", <<1, 2>>>>, <<"ratio", <<4, 1>>>>})>>,
      <<FilterSpec("voice_enhancement", TRUE, {<<"alpha", <<95, 100>>>>})>> }
ApiVideoChains ==
    { <<>>,
      <<FilterSpec("grayscale", FALSE, {})>>,
      <<FilterSpec("grayscale", FALSE, {}), FilterSpec("color_invert", TRUE, {})>>,
      <<FilterSpec("sepia", TRUE, {})>> }
\* the files that are uploaded: a video with an audio track, and an audio file
ApiSourceKinds == {kind \in SourceKinds : kind.hasVideo \/ kind.ext \in AudioExtensions}
\* the files upload is asked to take: those, and a file of a format that is not allowed
UploadKinds == ApiSourceKinds \cup {[ext |-> ".flac", hasVideo |-> FALSE]}

\* the record a handler answers with
Response(op, video_id, status) == [op |-> op, video_id |-> video_id, status |-> status]

\* handlers that run in threads of their own
LoopFree_threads(n) == TRUE
\* every handler is a coroutine (async def) without an await in its body: the
\* event loop starts a handler only when no other handler is running
LoopFree(n) == n = 0

\* the variables of AudioFilterManager.process_video at a call (pc = "entry"), or
\* when it is not called (pc = "idle")
SetAudio(pc, input_path, output_path, filters_config) ==
    /\ apc' = pc
    /\ a_input_path' = input_path
    /\ a_output_path' = output_path
    /\ a_filters_config' = filters_config
    /\ a_config0' = filters_config
    /\ audio_data' = NoBuffer
    /\ processed' = NoBuffer
    /\ a_i' = 1
    /\ a_trace' = <<>>
    /\ has_video_stream' = FALSE
    /\ a_failed' = "none"
    /\ a_saved' = "none"
    /\ a_result' = NoPath

\* the variables of VideoFilterManager.process_video at a call, or when it is not called
SetVideo(pc, input_path, output_path, filters_config) ==
    /\ vpc' = pc
    /\ v_input_path' = input_path
    /\ v_output_path' = output_path
    /\ v_filters_config' = filters_config
    /\ v_config0' = filters_config
    /\ v_i' = 0
    /\ v_temp_output' = NoPath
    /\ v_current_output' = NoPath
    /\ v_variant' = "none"
    /\ v_failed' = FALSE
    /\ v_result' = NoPath

\* the registry as the request found it is remembered when the answer is an error
RememberRegistry == h_videos0' = IF h_response'.status >= 400 THEN videos ELSE videos'

\* the locals of the last apply_filters call are kept until the next request is
\* handled
ForgetLocals ==
    /\ log' = <<>>
    /\ source0' = Stale
    /\ SetVideo("idle", NoPath, NoPath, <<>>)
    /\ SetAudio("idle", NoPath, NoPath, <<>>)
    /\ h_id' = ""
    /\ current_input' = NoPath
    /\ h_served' = NotServed

\* the service is started on a machine with or without ffmpeg and ffprobe
Install ==
    /\ hpc = "idle" /\ inflight = 0 /\ h_response = NoResponse
    /\ \E inst \in Installations :
        /\ ffmpeg' = inst.ffmpeg
        /\ ffprobe' = inst.ffprobe
    /\ UNCHANGED <<fs, tmpdirs, source0, log, vvars, avars, fvars, hvars>>

\* upload.upload_video
Upload ==
    /\ LoopFree(inflight)
    /\ UploadIds \ DOMAIN videos # {}
    /\ \E kind \in UploadKinds :
        /\ h_request' = [op |-> "upload", ext |-> kind.ext]
        /\ IF HasVideos(videos) \/ kind.ext \notin AllowedFormats
           THEN /\ h_response' = Response("upload", "", 400)
                /\ UNCHANGED <<fs, videos>>
           ELSE LET video_id == NewId(videos)
                    file_location == UploadPath(video_id, kind)
                    info == [path |-> file_location, processed |-> FALSE,
                             processed_path |-> NoPath, config |-> NoConfig]
                IN  /\ fs' = Write(fs, file_location,
                                   SourceContent(kind, CHOOSE b \in Buffers : TRUE))
                    /\ videos' = [id \in DOMAIN videos \cup {video_id} |->
                                    IF id = video_id THEN info ELSE videos[id]]
                    /\ h_response' = Response("upload", video_id, 201)
    /\ h_overlap' = (h_overlap \/ inflight > 0)
    /\ ForgetLocals
    /\ UNCHANGED <<tmpdirs, ffmpeg, ffprobe, fvars, hpc, inflight, s_path, h_applied>>
    /\ RememberRegistry

\* upload.delete_video
Delete ==
    /\ LoopFree(inflight)
    /\ \E id \in RequestIds :
        IF id \notin DOMAIN videos
        THEN /\ h_response' = Response("delete", id, 404)
             /\ UNCHANGED <<fs, videos, h_applied>>
        ELSE /\ fs' = [p \in DOMAIN fs \ {videos[id].path, videos[id].processed_path}
                          |-> fs[p]]
             /\ videos' = [v \in DOMAIN videos \ {id} |-> videos[v]]
             /\ h_applied' = [v \in DOMAIN h_applied \ {id} |-> h_applied[v]]
             /\ h_response' = Response("delete", id, 200)
    /\ h_overlap' = (h_overlap \/ inflight > 0)
    /\ ForgetLocals
    /\ h_request' = NoRequest
    /\ UNCHANGED <<tmpdirs, ffmpeg, ffprobe, fvars, hpc, inflight, s_path>>
    /\ RememberRegistry

\* filters.configure_filters, asked to save chains of the two sets
ConfigureWith(audio_chains, video_chains) ==
    /\ LoopFree(inflight)
    /\ \E id \in RequestIds, bothLists \in BOOLEAN,
          audio_filters \in audio_chains, video_filters \in video_chains :
        IF id \notin DOMAIN videos
        THEN /\ h_response' = Response("configure", id, 404)
             /\ UNCHANGED videos
        ELSE IF ~bothLists
        THEN /\ h_response' = Response("configure", id, 400)
             /\ UNCHANGED videos
        ELSE /\ videos' = [videos EXCEPT ![id].config = Config(audio_filters, video_filters)]
             /\ h_response' = Response("configure", id, 200)
    /\ h_overlap' = (h_overlap \/ inflight > 0)
    /\ ForgetLocals
    /\ h_request' = NoRequest
    /\ UNCHANGED <<fs, tmpdirs, ffmpeg, ffprobe, fvars, hpc, inflight, s_path, h_applied>>
    /\ RememberRegistry

Configure == ConfigureWith(ApiAudioChains, ApiVideoChains)

\* filters.apply_filters up to the audio pass: the checks, the temporary directory,
\* and the call of AudioFilterManager.process_video when audio_filters is not empty
ApplyBegin ==
    /\ LoopFree(inflight)
    /\ \E id \in RequestIds :
        IF id \notin DOMAIN videos \/ ~videos[id].config.set
        THEN /\ h_response' =
                  Response("apply", id, IF id \notin DOMAIN videos THEN 404 ELSE 400)
             /\ ForgetLocals
             /\ UNCHANGED <<tmpdirs, hpc, inflight>>
        ELSE LET input_file == videos[id].path
                 audio_filters == videos[id].config.audio_filters
             IN  /\ h_id' = id
                 /\ inflight' = inflight + 1
                 /\ tmpdirs' = tmpdirs \cup {ApiTmp}
                 /\ log' = <<>>
                 /\ h_served' = NotServed
                 /\ source0' = fs[input_file]
                 /\ SetVideo("idle", NoPath, NoPath, <<>>)
                 /\ IF audio_filters # <<>>
                    THEN /\ SetAudio("entry", input_file, TempVideoPath, audio_filters)
                         /\ hpc' = "audio"
                         /\ current_input' = NoPath
                    ELSE /\ SetAudio("idle", NoPath, NoPath, <<>>)
                         /\ hpc' = "video"
                         /\ current_input' = input_file
                 /\ UNCHANGED h_response
    /\ h_overlap' = (h_overlap \/ inflight > 0)
    /\ h_request' = NoRequest
    /\ h_videos0' = videos
    /\ UNCHANGED <<fs, ffmpeg, ffprobe, fvars, videos, s_path, h_applied>>

\* apply_filters after the audio pass: current_input is the temporary file when
\* process_video returned, the source when it raised; the FilterSpecs that
\* process_audio wrote into are those of the saved config
ApplyAfterAudio ==
    /\ hpc = "audio" /\ apc \in {"returned", "raised"}
    /\ current_input' = IF apc = "returned" THEN TempVideoPath ELSE videos[h_id].path
    /\ videos' = [videos EXCEPT ![h_id].config.audio_filters = a_filters_config]
    /\ hpc' = "video"
    /\ UNCHANGED <<fs, tmpdirs, ffmpeg, ffprobe, source0, log, vvars, avars, fvars,
                   h_id, h_response, inflight, h_overlap, s_path, h_served, h_request,
                   h_applied, h_videos0>>

\* apply_filters leaves the with block and returns: the registry entry is updated
ApplyReturns(f) ==
    /\ fs' = ExitTempDir(f, ApiTmp)
    /\ tmpdirs' = tmpdirs \ {ApiTmp}
    /\ videos' = [videos EXCEPT ![h_id].processed = TRUE,
                                ![h_id].processed_path = ProcessedPath(videos[h_id].path)]
    /\ h_applied' = [id \in DOMAIN h_applied \cup {h_id} |->
                        IF id = h_id THEN videos[h_id].config ELSE h_applied[id]]
    /\ h_videos0' = videos'
    /\ h_response' = Response("apply", h_id, 200)
    /\ hpc' = "idle"
    /\ inflight' = inflight - 1
    /\ h_served' = NotServed

\* an exception leaves the with block: the outer handler answers 500
ApplyFails(f) ==
    /\ fs' = ExitTempDir(f, ApiTmp)
    /\ tmpdirs' = tmpdirs \ {ApiTmp}
    /\ h_response' = Response("apply", h_id, 500)
    /\ hpc' = "idle"
    /\ inflight' = inflight - 1
    /\ h_served' = NotServed
    /\ UNCHANGED <<videos, h_applied, h_videos0>>

\* the final copy: shutil.copy2(current_input, processed_path) raises when there is
\* no file at current_input
ApplyCopy ==
    IF Exists(fs, current_input)
    THEN ApplyReturns(Copy2(fs, current_input, ProcessedPath(videos[h_id].path)))
    ELSE ApplyFails(fs)

\* apply_filters after current_input is set: the call of
\* VideoFilterManager.process_video when video_filters is not empty, otherwise the
\* copy of current_input to processed_path
ApplyVideo ==
    /\ hpc = "video"
    /\ IF videos[h_id].config.video_filters # <<>>
       THEN /\ SetVideo("entry", current_input, ProcessedPath(videos[h_id].path),
                        videos[h_id].config.video_filters)
            /\ hpc' = "video_run"
            /\ UNCHANGED <<fs, tmpdirs, videos, h_response, inflight, h_served,
                           h_applied, h_videos0>>
       ELSE /\ ApplyCopy
            /\ UNCHANGED vvars
    /\ UNCHANGED <<ffmpeg, ffprobe, source0, log, avars, fvars, h_id, current_input,
                   h_overlap, s_path, h_request>>

\* apply_filters after the video pass: when process_video raised, current_input is
\* copied to processed_path
ApplyAfterVideo ==
    /\ hpc = "video_run" /\ vpc \in {"returned", "raised"}
    /\ IF vpc = "returned" THEN ApplyReturns(fs) ELSE ApplyCopy
    /\ UNCHANGED <<ffmpeg, ffprobe, source0, log, vvars, avars, fvars, h_id,
                   current_input, h_overlap, s_path, h_request>>

\* streaming.stream_video up to "return StreamingResponse(iterfile(), ...)"; the
\* file is opened when the body is read
Stream ==
    /\ LoopFree(inflight)
    /\ s_path = NoPath
    /\ \E id \in RequestIds :
        IF id \notin DOMAIN videos
        THEN /\ h_response' = Response("stream", id, 404)
             /\ UNCHANGED s_path
        ELSE IF ~videos[id].processed
        THEN /\ h_response' = Response("stream", id, 400)
             /\ UNCHANGED s_path
        ELSE IF ~Exists(fs, videos[id].processed_path)
        THEN /\ h_response' = Response("stream", id, 404)
             /\ UNCHANGED s_path
        ELSE /\ h_response' = Response("stream", id, 200)
             /\ s_path' = videos[id].processed_path
    /\ h_overlap' = (h_overlap \/ inflight > 0)
    /\ ForgetLocals
    /\ h_request' = NoRequest
    /\ UNCHANGED <<fs, tmpdirs, ffmpeg, ffprobe, fvars, videos, hpc, inflight, h_applied>>
    /\ RememberRegistry

\* iterfile, run in a worker thread while the response body is sent:
\* open(video_path) and the file's bytes
StreamBody ==
    /\ s_path # NoPath
    /\ h_served' = IF Exists(fs, s_path) THEN fs[s_path] ELSE OpenFailed
    /\ s_path' = NoPath
    /\ UNCHANGED <<fs, tmpdirs, ffmpeg, ffprobe, source0, log, vvars, avars, fvars,
                   videos, hpc, h_id, current_input, h_response, inflight, h_overlap,
                   h_request, h_applied, h_videos0>>

NextApi ==
    \/ Install
    \/ Upload
    \/ Delete
    \/ Configure
    \/ ApplyBegin
    \/ ApplyAfterAudio
    \/ ApplyVideo
    \/ ApplyAfterVideo
    \/ VideoEntry
    \/ VideoLoop
    \/ VideoRun
    \/ AudioEntry
    \/ AudioExtract
    \/ AudioFilter
    \/ AudioSave
    \/ AudioProbe
    \/ AudioMerge

SpecApi == Init /\ [][NextApi]_vars

-----------------------------------------------------------------------------
(* The endpoints with stream *)

\* the chains that are configured when the processed file is streamed
StreamAudioChains ==
    {chain \in ApiAudioChains : \A k \in 1..Len(chain) : chain[k].name = "gain_compression"}
StreamVideoChains == {chain \in ApiVideoChains : Len(chain) <= 1}

ConfigureStream == ConfigureWith(StreamAudioChains, StreamVideoChains)

NextStream ==
    \/ Install
    \/ Upload
    \/ Delete
    \/ ConfigureStream
    \/ ApplyBegin
    \/ ApplyAfterAudio
    \/ ApplyVideo
    \/ ApplyAfterVideo
    \/ Stream
    \/ StreamBody
    \/ VideoEntry
    \/ VideoLoop
    \/ VideoRun
    \/ AudioEntry
    \/ AudioExtract
    \/ AudioFilter
    \/ AudioSave
    \/ AudioProbe
    \/ AudioMerge

SpecStream == Init /\ [][NextStream]_vars


-----------------------------------------------------------------------------
(* Properties *)

VideoDone == vpc \in {"returned", "raised"}
AudioDone == apc \in {"returned", "raised"}
\* process_audio has returned
AudioFiltered == apc \in {"save", "merge", "merge_run", "returned"} /\ a_trace # <<>>

RECURSIVE KnownVideoNames(_)
\* the registered names of a chain, in order
KnownVideoNames(chain) ==
    IF chain = <<>> THEN <<>>
    ELSE IF Head(chain).name \in VideoFilterNames
         THEN <<Head(chain).name>> \o KnownVideoNames(Tail(chain))
         ELSE KnownVideoNames(Tail(chain))

\* the filters burnt into a file's video stream, in order
BurntFilters(c) == [k \in 1..Len(c.vf) |-> OpFilter(c.vf[k])]

HasUnknown(chain) == \E k \in 1..Len(chain) : chain[k].name \notin VideoFilterNames

\* the FilterSpec at position k is registered and its function returns on buf
AudioValid(filter_config, buf) ==
    /\ filter_config.name \in AudioFilterNames
    /\ ~FilterRaises(filter_config.name, buf, PassedParams(filter_config))

\* C1: whenever AudioFilterManager.process_video returns, a file exists at the
\* output path it was given.
C1_OutputExists ==
    apc = "returned" => Exists(fs, a_output_path)

\* C2: in VideoFilterManager.process_video an unknown filter name, wherever it
\* stands in the chain, is a passthrough: when no stage failed, the output path
\* holds the source with the chain's registered filters applied in order (a copy
\* of the source when no name is registered).
C2_UnknownIsPassthrough ==
    (vpc = "returned" /\ ~v_failed /\ HasUnknown(v_config0)) =>
        /\ Exists(fs, v_output_path)
        /\ fs[v_output_path].kind = "media"
        /\ fs[v_output_path].pcm = source0.pcm
        /\ fs[v_output_path].hasVideo = source0.hasVideo
        /\ BurntFilters(fs[v_output_path]) = KnownVideoNames(v_config0)
        /\ (KnownVideoNames(v_config0) = <<>> => fs[v_output_path] = source0)

\* C3: when a stage of VideoFilterManager.process_video fails, the failing run is
\* the last run of the tool (no later stage is executed) and the output path holds
\* a copy of the original source, not a partial file or an intermediate result.
C3_StageFailureCopiesSource ==
    (vpc = "returned" /\ v_failed) =>
        /\ log # <<>>
        /\ log[Len(log)].r # "ok"
        /\ \A k \in 1..Len(log) : log[k].i <= log[Len(log)].i
        /\ Exists(fs, v_output_path)
        /\ fs[v_output_path] = source0

\* a later stage failed after an earlier one had succeeded, and left a partial file
\* at the output path
C3_Witness ==
    /\ vpc = "returned" /\ v_failed
    /\ log[Len(log)].out = v_output_path
    /\ log[Len(log)].wrote = "partial"
    /\ \E k \in 1..Len(log) : log[k].r = "ok" /\ log[k].wrote = "full"

C5_BadFilterIsSkipped ==
    /\ \A k \in 1..(Len(a_trace) - 1) :
          IF AudioValid(a_config0[k], a_trace[k])
          THEN a_trace[k + 1] =
                 FilterValue(a_config0[k].name, a_trace[k], PassedParams(a_config0[k]))
          ELSE a_trace[k + 1] = a_trace[k]
    /\ AudioFiltered =>
          /\ Len(a_trace) = Len(a_config0) + 1
          /\ processed = a_trace[Len(a_trace)]

\* process_audio returned after a FilterSpec that was skipped and a later one that
\* changed the buffer
C5_Witness ==
    /\ AudioFiltered
    /\ Len(a_config0) = 2
    /\ ~AudioValid(a_config0[1], a_trace[1])
    /\ AudioValid(a_config0[2], a_trace[2])
    /\ a_trace[3] # a_trace[2]
    /\ a_trace[2] = a_trace[1]

\* C6: for a chain [f, g] of two valid filters process_audio returns g(f(buffer)),
\* each filter called with the parameters of its own FilterSpec.
C6_ChainOrder ==
    (AudioFiltered /\ Len(a_config0) = 2) =>
        LET f == a_config0[1]
            g == a_config0[2]
            x == AsFloat(audio_data)
            fx == FilterValue(f.name, x, PassedParams(f))
        IN  (AudioValid(f, x) /\ AudioValid(g, fx)) =>
                processed = FilterValue(g.name, fx, PassedParams(g))

\* process_audio returned for two valid filters that do not commute on the buffer
C6_Witness ==
    /\ AudioFiltered /\ Len(a_config0) = 2
    /\ LET f == a_config0[1]
           g == a_config0[2]
           x == AsFloat(audio_data)
           fx == FilterValue(f.name, x, PassedParams(f))
           gx == FilterValue(g.name, x, PassedParams(g))
       IN  /\ AudioValid(f, x) /\ AudioValid(g, fx) /\ AudioValid(g, x) /\ AudioValid(f, gx)
           /\ FilterValue(g.name, fx, PassedParams(g)) # FilterValue(f.name, gx, PassedParams(f))
           /\ processed # FilterValue(f.name, gx, PassedParams(f))

\* C7: when either orchestrator's process_video has returned or raised, its
\* temporary directory and every file in it are gone.
C7_TempDirRemoved ==
    /\ VideoDone => VideoTmp \notin tmpdirs /\ \A p \in DOMAIN fs : p.dir # VideoTmp
    /\ AudioDone => AudioTmp \notin tmpdirs /\ \A p \in DOMAIN fs : p.dir # AudioTmp

\* a call returned after an intermediate file had been written into its directory
C7_Witness ==
    /\ VideoDone \/ AudioDone
    /\ \E k \in 1..Len(log) :
          log[k].out.dir \in {VideoTmp, AudioTmp} /\ log[k].wrote \in {"full", "partial"}

\* C8: with an empty chain AudioFilterManager.process_video makes the output a
\* byte-identical copy of the source, and neither extracts, nor filters, nor runs
\* the external tool.
C8_EmptyAudioChainCopies ==
    (apc = "returned" /\ a_config0 = <<>>) =>
        /\ Exists(fs, a_output_path)
        /\ fs[a_output_path] = source0
        /\ log = <<>>
        /\ audio_data = NoBuffer
        /\ a_trace = <<>>
        /\ tmpdirs = {}

\* the empty chain returned over an old file at the output path
C8_Witness ==
    /\ apc = "returned" /\ a_config0 = <<>>
    /\ fs[a_output_path] # Stale

\* C9 as stated: with an empty chain VideoFilterManager.process_video runs one
\* stream copy, and when that run fails for any reason (non-zero exit or tool not
\* found) the output is a plain copy of the source and the call returns.
C9_AnyCopyFailureFallsBack ==
    (VideoDone /\ v_config0 = <<>>) =>
        /\ Len(log) = 1 /\ log[1].step = "stream_copy"
        /\ vpc = "returned"
        /\ Exists(fs, v_output_path)
        /\ fs[v_output_path] = IF log[1].r = "ok" THEN StreamCopy(source0) ELSE source0

\* C9 as amended: with an empty chain VideoFilterManager.process_video runs one
\* stream copy and no filter; when that run exits non-zero the output is a plain
\* copy of the source and the call returns; when the tool is not found the error
\* reaches the caller and the output path is left as it was.
C9_NonZeroCopyFailureFallsBack ==
    (VideoDone /\ v_config0 = <<>>) =>
        /\ Len(log) = 1 /\ log[1].step = "stream_copy"
        /\ log[1].r = "ok" =>
              vpc = "returned" /\ Exists(fs, v_output_path)
              /\ fs[v_output_path] = StreamCopy(source0)
        /\ log[1].r = "nonzero" =>
              vpc = "returned" /\ Exists(fs, v_output_path)
              /\ fs[v_output_path] = source0
        /\ log[1].r = "notfound" =>
              vpc = "raised"
              /\ (Exists(fs, v_output_path) => fs[v_output_path] = Stale)

\* the stream copy exited non-zero after writing a partial file
C9_Witness ==
    /\ vpc = "returned" /\ v_config0 = <<>>
    /\ Len(log) = 1 /\ log[1].r = "nonzero" /\ log[1].wrote = "partial"

\* C10: when an orchestrator has finished, the FilterChain it was given (names and
\* params of every FilterSpec) is equal to what it was at the call.
C10_ChainUnchanged ==
    /\ VideoDone => v_filters_config = v_config0
    /\ AudioDone => a_filters_config = a_config0

-----------------------------------------------------------------------------
(* Outcomes, results and the sample path of the orchestrators *)

\* how a finished call of VideoFilterManager.process_video went: every filter of
\* the chain ran ("full"), names were skipped ("partial"), the source was copied
\* ("fallback"), or the call raised
VideoOutcome ==
    IF vpc = "raised" THEN "raised"
    ELSE IF v_failed \/ \E k \in 1..Len(log) : log[k].step = "stream_copy" /\ log[k].r # "ok"
    THEN "fallback"
    ELSE IF HasUnknown(v_config0) THEN "partial"
    ELSE "full"

\* how a finished call of AudioFilterManager.process_video went
AudioOutcome ==
    IF apc = "raised" THEN "raised"
    ELSE IF a_failed # "none" THEN "fallback"
    ELSE IF \/ a_saved = "original"
            \/ \E k \in 1..Len(a_config0) : ~AudioValid(a_config0[k], a_trace[k])
    THEN "partial"
    ELSE "full"

\* the tool was not found by some run of the call
ToolNotFound == \E k \in 1..Len(log) : log[k].r = "notfound"

\* the buffer process_audio's comment describes: every 16-bit sample s as s / 32767
Normalized(pcm) ==
    [c \in 1..Len(pcm) |-> [n \in 1..Len(pcm[c]) |-> DivT(AsFloat(pcm)[c][n], Int16Max)]]

\* the commands of the video stages, without frame_interpolation's query
StageRuns == {k \in 1..Len(log) : log[k].tool = "ffmpeg" /\ log[k].step # "filters_query"}

\* C11: the value an orchestrator returns tells how the call went: a call that
\* skipped filters or fell back to a copy of the source does not return the value
\* that a call applying every filter returns (the plain output path).
C11_ResultTellsOutcome ==
    /\ (vpc = "returned" /\ VideoOutcome # "full") => v_result # v_output_path
    /\ (apc = "returned" /\ AudioOutcome # "full") => a_result # a_output_path

\* C12: an orchestrator ends with an error exactly when the run that failed did
\* not find the external tool; after any other failure it returns.
C12_ToolMissingIsFatal ==
    /\ VideoDone => (vpc = "raised" <=> ToolNotFound)
    /\ (AudioDone /\ a_config0 # <<>>) => (apc = "raised" <=> ToolNotFound)

\* C13: with the chain [gain_compression{threshold, ratio}] the samples written
\* for the remux are the 16-bit encoding of the compression of s / 32767, for
\* every extracted sample s.
C13_EndToEndCompression ==
    (/\ apc \in {"merge", "merge_run"} /\ a_saved = "processed"
     /\ Len(a_config0) = 1 /\ a_config0[1].name = "gain_compression") =>
        fs[ProcessedWavPath].pcm =
            save_audio_to_wav(
                apply_gain_compression(Normalized(audio_data), ParamsOf(a_config0[1])),
                "float32")

\* C14: process_audio normalises the extracted 16-bit buffer to [-1, 1] before the
\* first filter, and every registered filter is called with samples in [-1, 1].
C14_NormalizedOnce ==
    a_trace # <<>> =>
        /\ a_trace[1] = Normalized(audio_data)
        /\ \A k \in 1..Len(a_trace) :
              (k <= Len(a_config0) /\ a_config0[k].name \in AudioFilterNames) =>
                  MaxAbs(a_trace[k]) <= Unit


\* the calls of the history that returned
Returned == {k \in 1..Len(f_hist) : ~f_hist[k].raised}
\* the calls of gain_compression, and the threshold and ratio of a call
GainCalls == {k \in Returned : f_hist[k].name = "gain_compression"}
ThresholdOf(call) == Times(Unit, Get(call.params, "threshold", <<1, 2>>))
RatioOf(call) == Get(call.params, "ratio", <<4, 1>>)
SameShape(a, b) ==
    /\ Channels(a) = Channels(b)
    /\ \A c \in 1..Len(a) : Len(a[c]) = Len(b[c])

\* C15: apply_gain_compression returns a sample x itself when |x| <= threshold;
\* otherwise it returns a sample of the same sign whose magnitude is threshold +
\* (|x| - threshold) / ratio, which lies between threshold and |x|; the buffer it
\* was given is not modified.
C15_GainCompressionLaw ==
    \A k \in GainCalls :
        LET h == f_hist[k]
            t == ThresholdOf(h)
            ratio == RatioOf(h)
        IN  /\ SameShape(h.out, h.inp)
            /\ h.arg_after = h.inp
            /\ \A c \in 1..Len(h.inp) : \A n \in 1..Len(h.inp[c]) :
                  LET x == h.inp[c][n]
                      y == h.out[c][n]
                  IN  /\ Abs(x) <= t => y = x
                      /\ Abs(x) > t =>
                            /\ Sign(y) = Sign(x)
                            /\ t <= Abs(y) /\ Abs(y) <= Abs(x)
                            /\ (Abs(y) - t) * ratio[1] <= (Abs(x) - t) * ratio[2]
                            /\ (Abs(x) - t) * ratio[2] < (Abs(y) - t + 1) * ratio[1]

\* gain compression with a ratio above 1 returned a buffer with a sample it kept
\* and a sample it lowered
C15_Witness ==
    \E k \in GainCalls :
        LET h == f_hist[k]
        IN  /\ RatioOf(h)[1] > RatioOf(h)[2]
            /\ \E c \in 1..Len(h.inp) : \E n, m \in 1..Len(h.inp[c]) :
                  /\ h.inp[c][n] # 0 /\ h.out[c][n] = h.inp[c][n]
                  /\ Abs(h.out[c][m]) < Abs(h.inp[c][m])

\* C16: when every sample of a buffer has a magnitude of at most the threshold,
\* a second call of apply_gain_compression with the same threshold and ratio
\* returns what the first call returned.
C16_GainIdempotentBelowThreshold ==
    \A k \in GainCalls :
        (/\ k + 1 \in GainCalls
         /\ f_hist[k + 1].params = f_hist[k].params
         /\ MaxAbs(f_hist[k].inp) <= ThresholdOf(f_hist[k])) =>
            f_hist[k + 1].out = f_hist[k].out

\* gain compression was called twice with a threshold below 1.0 on a buffer that
\* is not silent and lies below the threshold
C16_Witness ==
    \E k \in GainCalls :
        /\ k + 1 \in GainCalls
        /\ f_hist[k + 1].params = f_hist[k].params
        /\ ThresholdOf(f_hist[k]) < Unit
        /\ MaxAbs(f_hist[k].inp) <= ThresholdOf(f_hist[k])
        /\ MaxAbs(f_hist[k].inp) > 0
        /\ Channels(f_hist[k].inp) = 2

\* C17 as stated: every filter returns a buffer with the channel count and the
\* sample count of its input, for mono and for stereo input.
C17_ShapeKept ==
    \A k \in Returned : SameShape(f_hist[k].out, f_hist[k].inp)

\* C17 as amended: every filter returns a buffer with the sample count of its
\* input; the channel count is kept for stereo input, and for mono input by every
\* filter but the car effect, which returns two identical channels; hence after
\* any sequence of filters a stereo buffer has the shape it had at the start.
C17_ShapeKeptButCarOnMono ==
    /\ \A k \in Returned :
          LET h == f_hist[k]
          IN  IF h.name = "car" /\ Channels(h.inp) = 1
              THEN /\ Channels(h.out) = 2
                   /\ h.out[1] = h.out[2]
                   /\ Len(h.out[1]) = Len(h.inp[1])
              ELSE SameShape(h.out, h.inp)
    /\ Channels(f_in0) = 2 => \A k \in Returned : SameShape(f_hist[k].out, f_in0)

\* the car effect was called on a mono buffer, and after it a second filter on
\* its two channels
C17_Witness ==
    /\ Len(f_hist) = 2 /\ Returned = {1, 2}
    /\ f_hist[1].name = "car" /\ Channels(f_hist[1].inp) = 1
    /\ Channels(f_hist[2].out) = 2

\* C18: for a chain of registered video filters, a stage reads the source when it
\* is the first and otherwise the file the stage before it wrote; every stage but
\* the last writes a file of its own in the temporary directory, the last and only
\* the last writes the output path; a call of n stages that all succeed creates
\* n - 1 intermediate files.
C18_StagesChain ==
    (vpc \in {"loop", "run", "returned"} /\ v_config0 # <<>> /\ ~HasUnknown(v_config0)) =>
        LET n == Len(v_config0)
        IN  /\ \A k \in StageRuns :
                  /\ log[k].i = 0 => log[k].inp = v_input_path
                  /\ log[k].i > 0 =>
                        \E j \in StageRuns :
                            /\ j < k /\ log[j].i = log[k].i - 1
                            /\ log[j].r = "ok" /\ log[j].out = log[k].inp
                  /\ log[k].i < n - 1 =>
                        log[k].out.dir = VideoTmp /\ log[k].out # v_output_path
                  /\ log[k].i = n - 1 <=> log[k].out = v_output_path
                  /\ log[k].inp # log[k].out
                  /\ \A j \in StageRuns : log[j].i # log[k].i => log[j].out # log[k].out
            /\ (vpc = "returned" /\ ~v_failed) =>
                  Cardinality({log[k].out : k \in {j \in StageRuns :
                                  log[j].r = "ok" /\ log[j].out.dir = VideoTmp}}) = n - 1

\* three registered filters ran to the end, one of them through its simpler command
C18_Witness ==
    /\ vpc = "returned" /\ ~v_failed
    /\ Len(v_config0) = 3 /\ ~HasUnknown(v_config0)
    /\ \E k \in StageRuns : log[k].r = "nonzero" /\ log[k].i = 1
    /\ Cardinality({log[k].i : k \in StageRuns}) = 3

\* the runs of the tool made by the audio pass and by the video pass
AudioSteps == {"extract", "probe", "merge"}
AudioRuns == {k \in 1..Len(log) : log[k].step \in AudioSteps}
VideoRuns == {k \in 1..Len(log) : log[k].step \notin AudioSteps}
\* apply_filters has answered, and no request was handled since
ApplyEnded == hpc = "idle" /\ h_response.op = "apply" /\ h_response.status \in {200, 500}

\* C19: in apply_filters the audio pass has ended before the video pass starts;
\* with a non-empty audio chain the video pass, or the final copy, reads the file
\* the audio pass was told to write; and when every run of the tool succeeded the
\* processed file carries the filtered audio track and the video filters of the chain.
C19_AudioThenVideo ==
    /\ vpc # "idle" => apc \in {"idle", "returned", "raised"}
    /\ (ApplyEnded /\ a_config0 # <<>>) =>
          LET processed_path == ProcessedPath(videos[h_id].path)
          IN  /\ \A j \in AudioRuns, k \in VideoRuns : j < k
              /\ current_input = a_result
              /\ v_config0 # <<>> => v_input_path = a_result
              /\ (/\ \A k \in 1..Len(log) : log[k].r = "ok"
                  /\ a_saved = "processed"
                  /\ ~HasUnknown(v_config0)) =>
                    /\ h_response.status = 200
                    /\ Exists(fs, processed_path)
                    /\ fs[processed_path].pcm = save_audio_to_wav(processed, "float32")
                    /\ BurntFilters(fs[processed_path]) = KnownVideoNames(v_config0)

\* C21: once apply has answered 200 for a file, every stream request for it is
\* answered 200 until the file is deleted (never 400, never 404); and stream
\* answers 200 only for a file whose apply has succeeded.
C21_StreamAfterApply ==
    /\ (/\ h_response.op = "stream"
        /\ h_response.video_id \in DOMAIN videos
        /\ videos[h_response.video_id].processed) => h_response.status = 200
    /\ (h_response.op = "stream" /\ h_response.status = 200) =>
          /\ h_response.video_id \in DOMAIN videos
          /\ videos[h_response.video_id].processed

\* C20: at most one handler is running at any time, a handler never begins while
\* another one is running, and while apply_filters runs its pipelines the file it
\* was uploaded as is registered and exists.
C20_OnePipelineAtATime ==
    /\ inflight <= 1
    /\ ~h_overlap
    /\ hpc # "idle" =>
          /\ inflight = 1
          /\ h_id \in DOMAIN videos
          /\ Exists(fs, videos[h_id].path)
          /\ fs[videos[h_id].path] = source0

\* apply_filters is in the middle of its video pass, after an audio pass, for a file
\* that was processed before
C20_Witness ==
    /\ hpc = "video_run" /\ vpc = "run"
    /\ a_config0 # <<>> /\ apc = "returned"
    /\ inflight = 1
    /\ videos[h_id].processed

\* a step of upload_video: a handler answers an upload request (no pipeline runs
\* before or after the step, and no response body is read in it)
UploadStep ==
    /\ hpc = "idle" /\ hpc' = "idle"
    /\ h_request'.op = "upload"
    /\ h_served' = NotServed

\* C22: the registry never holds more than one file; an upload request made while
\* a file is registered is answered 400 and changes neither the registry nor the
\* disk; an upload of an allowed format made while no file is registered (at the
\* start, and again after the file was deleted) is accepted and registers its file.
C22_OneFileAtATime ==
    /\ [](Cardinality(DOMAIN videos) <= 1)
    /\ [][(UploadStep /\ DOMAIN videos # {}) =>
            /\ h_response' = Response("upload", "", 400)
            /\ videos' = videos
            /\ fs' = fs]_vars
    /\ [][(UploadStep /\ DOMAIN videos = {} /\ h_request'.ext \in AllowedFormats) =>
            /\ h_response'.op = "upload" /\ h_response'.status = 201
            /\ DOMAIN videos' = {h_response'.video_id}
            /\ Exists(fs', videos'[h_response'.video_id].path)
            /\ ~videos'[h_response'.video_id].processed]_vars

\* an upload was rejected while a file is registered that was uploaded after the
\* deletion of an earlier one: the body of a stream response for the earlier file
\* is still to be read, and the registered file has not been processed
C22_Witness ==
    /\ h_response = Response("upload", "", 400)
    /\ h_request.ext \in AllowedFormats
    /\ DOMAIN videos = {VideoId}
    /\ ~videos[VideoId].processed
    /\ s_path # NoPath

-----------------------------------------------------------------------------
(* The remux and the runs of the external tool *)

\* the merge command of a call that ended without a fallback
MergeRun == log[Len(log)]
MergedOk == apc = "returned" /\ a_config0 # <<>> /\ a_failed = "none"

\* C23: for a source without a video stream the codec of the remuxed track is
\* decided by the output extension alone: .mp3 is MP3, .wav is 16-bit PCM, .m4a
\* and .aac are AAC, and any other extension a lossy format.
C23_CodecByOutputExt ==
    (MergedOk /\ ~source0.hasVideo) =>
        LET output_ext == Ext(a_output_path)
            codec == fs[MergeRun.out].acodec
        IN  /\ MergeRun.step = "merge"
            /\ output_ext = ".mp3" => codec = "libmp3lame"
            /\ output_ext = ".wav" => codec = "pcm_s16le"
            /\ output_ext \in {".m4a", ".aac"} => codec = "aac"
            /\ codec \in {"libmp3lame", "pcm_s16le", "aac"}

\* C24: a run of the external tool that exits non-zero is a failure of the step
\* that made it: after a non-zero extraction, probe or remux the audio pass makes
\* no further run and falls back to the copy of the source; a non-zero stream copy
\* is answered by the plain copy; a non-zero command of a video stage is followed
\* by the simpler command of the same stage or by the fallback of the call, never
\* by a later stage.
C24_NonZeroIsFailure ==
    \A k \in 1..Len(log) :
        log[k].r = "nonzero" =>
            IF log[k].step \in AudioSteps
            THEN /\ k = Len(log)
                 /\ apc = "returned"
                 /\ a_failed = log[k].step
            ELSE IF log[k].step = "stream_copy"
            THEN /\ k = Len(log)
                 /\ vpc = "returned"
                 /\ fs[v_output_path] = source0
            ELSE IF k < Len(log)
            THEN /\ FallbackVariant(log[k].step) # "none"
                 /\ log[k + 1].step = FallbackVariant(log[k].step)
                 /\ log[k + 1].i = log[k].i
            ELSE \/ vpc = "run" /\ v_variant = FallbackVariant(log[k].step)
                 \/ vpc \in {"returned", "raised"} /\ v_failed

\* the entries of the commands of the video stages (the query of frame_interpolation
\* included)
StageEntries == {k \in 1..Len(log) : log[k].step \notin AudioSteps \cup {"stream_copy"}}
\* after entry k the stage goes on with the command variant
FollowedBy(k, variant) ==
    IF k < Len(log)
    THEN /\ log[k + 1].step = variant
         /\ log[k + 1].i = log[k].i
         /\ log[k].step # "filters_query" =>
               log[k + 1].inp = log[k].inp /\ log[k + 1].out = log[k].out
    ELSE vpc = "run" /\ v_variant = variant /\ v_i = log[k].i
\* entry k ended its stage with a failure: no further run, the call fell back
StageFailedAt(k) == k = Len(log) /\ v_failed /\ vpc \in {"returned", "raised"}
\* entry k ended its stage with success: the call went on with a later stage
StageSucceededAt(k) ==
    IF k < Len(log) THEN log[k + 1].i > log[k].i
    ELSE ~v_failed /\ (vpc = "returned" \/ v_i > log[k].i)
OnlyRunOfItsKind(k) ==
    \A j \in StageEntries : (log[j].i = log[k].i /\ log[j].step = log[k].step) => j = k

\* C25: a frame_interpolation or upscaling stage whose first command exits
\* non-zero runs its simpler command exactly once, on the same input and output
\* paths, succeeds when that succeeds and fails when that fails too;
\* frame_interpolation runs an fps command instead of minterpolate when the query
\* reports the filter unavailable or exits non-zero (the stage fails when the tool
\* is not found); grayscale and color_invert run one command and fail when it fails.
C25_SimplerVariantOnce ==
    \A k \in StageEntries :
        LET e == log[k]
        IN  CASE e.step = "filters_query" ->
                    /\ OnlyRunOfItsKind(k)
                    /\ e.r = "ok" => FollowedBy(k, "minterpolate") \/ FollowedBy(k, "fps")
                    /\ e.r = "nonzero" => FollowedBy(k, "fps_fallback")
                    /\ e.r = "notfound" => StageFailedAt(k)
              [] e.step \in {"minterpolate", "fps", "scale_lanczos"} ->
                    /\ OnlyRunOfItsKind(k)
                    /\ e.r = "ok" => StageSucceededAt(k)
                    /\ e.r = "nonzero" =>
                          FollowedBy(k, IF e.step = "scale_lanczos" THEN "scale_fallback"
                                        ELSE "fps_fallback")
                    /\ e.r = "notfound" => StageFailedAt(k)
              [] e.step \in {"fps_fallback", "scale_fallback"} ->
                    /\ OnlyRunOfItsKind(k)
                    /\ e.r = "ok" => StageSucceededAt(k)
                    /\ e.r # "ok" => StageFailedAt(k)
              [] OTHER ->
                    /\ \A j \in StageEntries : log[j].i = e.i => j = k
                    /\ e.r = "ok" => StageSucceededAt(k)
                    /\ e.r # "ok" => StageFailedAt(k)

\* minterpolate exited non-zero, the fps command that followed succeeded, and the
\* call went on to an upscaling stage that needed its simpler command too
C25_Witness ==
    /\ vpc = "returned" /\ ~v_failed
    /\ \E k \in StageEntries :
          /\ log[k].step = "minterpolate" /\ log[k].r = "nonzero"
          /\ log[k + 1].step = "fps_fallback" /\ log[k + 1].r = "ok"
    /\ \E k \in StageEntries :
          /\ log[k].step = "scale_lanczos" /\ log[k].r = "nonzero" /\ log[k].wrote = "partial"
          /\ log[k + 1].step = "scale_fallback" /\ log[k + 1].r = "ok"

\* every run of the tool made so far succeeded
AllRunsOk == \A k \in 1..Len(log) : log[k].r = "ok"

\* C26: merge_audio_with_video takes the source for a container with video exactly
\* when the source holds a video stream, whatever its extension: when every run
\* succeeds the remuxed file carries the source's video stream, unchanged, if the
\* source has one, and is the processed track alone if it has none.
C26_VideoKeptIffProbed ==
    (MergedOk /\ AllRunsOk) =>
        LET merged == fs[MergeRun.out]
        IN  /\ merged.hasVideo = source0.hasVideo
            /\ source0.hasVideo => merged.container = "muxed" /\ merged.vf = source0.vf
            /\ ~source0.hasVideo => merged.container = "encoded"

\* C29: from the call of an orchestrator on, the source file exists and holds
\* what it held at the call, whatever the call does (output path different from
\* the source path).
C29_SourceUntouched ==
    /\ (vpc # "idle" /\ v_input_path # v_output_path) =>
          Exists(fs, v_input_path) /\ fs[v_input_path] = source0
    /\ (apc # "idle" /\ a_input_path # a_output_path) =>
          Exists(fs, a_input_path) /\ fs[a_input_path] = source0

\* C30: when an orchestrator has finished, the only files there are besides the
\* source are at the output path: the call left no file under another name.
C30_OnlyOutputWritten ==
    /\ VideoDone => DOMAIN fs \subseteq {v_input_path, v_output_path}
    /\ AudioDone => DOMAIN fs \subseteq {a_input_path, a_output_path}

-----------------------------------------------------------------------------
(* The echo offset and the samples written *)

\* delay_ms * sample_rate / 1000 rounded to the nearest integer
RoundedDelaySamples(params) ==
    LET delay_ms == Get(params, "delay_ms", <<500, 1>>)
        sample_rate == Get(params, "sample_rate", <<SampleRate, 1>>)[1]
    IN  (2 * delay_ms[1] * sample_rate + delay_ms[2] * 1000) \div (2 * delay_ms[2] * 1000)

\* C28: apply_denoise_delay adds the echo at the offset
\* round(delay_ms * sample_rate / 1000): every result of the filter is the result
\* with the echo at the nearest integer of delay_ms * sample_rate / 1000.
C28_EchoAtRoundedOffset ==
    \A k \in 1..Len(f_hist) :
        (f_hist[k].name = "denoise_delay" /\ ~f_hist[k].raised) =>
            f_hist[k].out
                = delayed_at(f_hist[k].inp, f_hist[k].params,
                             RoundedDelaySamples(f_hist[k].params))

\* C27: save_audio_to_wav writes 0 for a sample that is not finite, and for a finite
\* sample x the 16-bit integer of x clipped to [-1, 1] and scaled by 32767; every
\* sample written lies in [-32767, 32767].
C27_NonFiniteWrittenAsZero ==
    \A k \in 1..Len(f_hist) :
        f_hist[k].name = "save_audio_to_wav" =>
            \A n \in 1..Len(f_hist[k].inp[1]) :
                LET x == f_hist[k].inp[1][n]
                    written == f_hist[k].out[1][n]
                IN  /\ x \in NonFinite => written = 0
                    /\ x \notin NonFinite =>
                          written = DivT(Max2(-Unit, Min2(Unit, x)) * Int16Max, Unit)
                    /\ written \in -Int16Max..Int16Max

-----------------------------------------------------------------------------
(* Failures inside a chain, the registry after an error, termination *)

RECURSIVE AppliedInTurn(_, _)
\* the buffer after every FilterSpec of the chain had its turn: the filter's result
\* where it succeeded, the buffer as it was where the FilterSpec could not be applied
AppliedInTurn(buf, chain) ==
    IF chain = <<>> THEN buf
    ELSE AppliedInTurn(IF NameRaises(Head(chain)) THEN buf
                       ELSE process_audio_step(buf, Head(chain)),
                       Tail(chain))

\* C31: a FilterSpec that fails or is malformed does not discard what the filters
\* before it did: when earlier filters of the chain changed the buffer, the track
\* that is serialized is the buffer those filters produced.
C31_EarlierFiltersKept ==
    (/\ apc \in {"merge", "merge_run"}
     /\ a_saved = "processed"
     /\ a_trace[Len(a_trace)] # a_trace[1]) =>
        fs[ProcessedWavPath]
            = Wav(save_audio_to_wav(AppliedInTurn(AsFloat(audio_data), a_config0), "float32"))

\* C32: what stream serves was made with the configuration that is saved: when
\* stream answers 200 for a file, the config saved for the file is the config its
\* processed file was made with.
C32_ServedIsOfSavedConfig ==
    \A id \in DOMAIN videos :
        h_response = Response("stream", id, 200) =>
            id \in DOMAIN h_applied /\ h_applied[id] = videos[id].config

\* C33: a request answered with an error leaves the registry as it found it: the
\* entries, their config, their processed flag and their processed_path.
C33_ErrorLeavesRegistry ==
    (hpc = "idle" /\ h_response.status >= 400) => videos = h_videos0

\* the runs of the tool made for the video stage i, and those that are commands of
\* the filter (the availability query is not)
RunsOfStage(i) == {k \in VideoRuns : log[k].i = i}
CommandsOfStage(i) == {k \in RunsOfStage(i) : log[k].step # "filters_query"}
\* the stages a call has
StageIndices == 0..Max2(Len(v_config0) - 1, 0)
\* the runs of the tool stay within the bounds
RunsBounded ==
    /\ Cardinality(AudioRuns) <= 3
    /\ \A step \in AudioSteps : Cardinality({k \in AudioRuns : log[k].step = step}) <= 1
    /\ \A i \in StageIndices :
          /\ Cardinality(RunsOfStage(i)) <= 3
          /\ Cardinality(CommandsOfStage(i)) <= 2
    /\ \A k \in VideoRuns : log[k].i \in StageIndices

\* C34: when every run of the external tool exits, every call of an orchestrator
\* ends, and it makes at most 3 runs of the tool in the audio pipeline (extract,
\* probe, remux) and at most 3 in each video stage (query, the preferred command,
\* the simpler command), no stage running more than one command after its first.
C34_TerminatesWithinBounds ==
    /\ []RunsBounded
    /\ (vpc # "idle") ~> VideoDone
    /\ (apc # "idle") ~> AudioDone

\* a chain of three stages ended after a frame_interpolation stage that took the
\* query, minterpolate and the fps command, three runs of the tool
C34_Witness ==
    /\ vpc = "returned" /\ ~v_failed
    /\ Len(v_config0) = 3
    /\ \E i \in StageIndices :
          /\ Cardinality(RunsOfStage(i)) = 3
          /\ \E k \in RunsOfStage(i) : log[k].step = "fps_fallback" /\ log[k].r = "ok"

====
